---- MODULE Spec2Model ----
(***************************************************************************)
(* Model of the Markdown -> Google Docs writer (m2gdw).                    *)
(*                                                                         *)
(* Text is a sequence of one-character strings.  A request of the Docs API *)
(* is a record tagged by its field "op".                                   *)
(*                                                                         *)
(*   SpecConv   MarkdownToGoogleDocsConverter.convert, one line per step   *)
(*   SpecPlan   the table fills of GoogleDocsRepository, one call per step *)
(*   SpecWrite  DocumentService.write_markdown_to_document on a remote     *)
(*              document, one collaborator call per step                   *)
(*   SpecSplit  DocumentService._split_markdown_and_first_table            *)
(***************************************************************************)
EXTENDS Integers, Sequences, FiniteSets, TLC

VARIABLES
    \* one call of convert on a converter instance
    cv_pc,             \* "idle", "running" (inside the loop over the lines), "returned"
    markdown_content,  \* argument of convert
    start_index,       \* argument of convert
    lines,             \* the lines the loop has not visited yet
    current_index,     \* self.current_index, the running cursor
    requests,          \* the local list "requests" of convert
    this_line,         \* the loop variable "line": the line visited last
    line_start,        \* the cursor when that line was visited
    line_requests,     \* the requests that line has added
    prior_start,       \* start_index of the call before this one on the instance
    \* one call of a table fill of the repository
    pl_pc,             \* "idle", "returned" (with or without a batch), "raised"
    pl_mode,           \* "first" (fill_first_table) or "at_index" (fill_table_at_index)
    snapshot,          \* body.content the fill read with documents().get
    pl_data,           \* argument data
    location_index,    \* argument location_index of fill_table_at_index
    fill_requests,     \* the batch the fill submitted, <<>> when it submitted none
    pl_status,         \* "ok", or the exception the fill raised
    pl_doc,            \* the document the snapshot was read from
    \* calls of write_markdown_to_document on one document
    w_pc,              \* the collaborator call the service is about to make
    w_md,              \* request.markdown_content
    before_md,         \* the three results of _split_markdown_and_first_table
    has_table,         \*   (has_table is FALSE where table_data is None)
    table_data,
    after_md,
    end_index,         \* the local end_index, later new_end_index
    calls,             \* the collaborator calls of this invocation, in order
    w_result,          \* what the invocation returned or raised
    remote_doc,        \* the remote document
    writes,            \* number of invocations so far
    rendered,          \* the documents the successful invocations have left
    \* one call of _split_markdown_and_first_table
    sp_pc,             \* "idle", "called" or "returned"
    sp_markdown,       \* argument markdown
    sp_result,         \* the triple it returned
    \* two requests to /write, each with the service built for it
    t_pc,              \* per request: the collaborator call it is at
    t_md,              \* per request: its markdown_content
    t_frames,          \* per service: the locals of write_markdown_to_document
    t_docs,            \* per request: the document of its document_id
    t_calls,           \* per request: the collaborator calls it has made
    t_last,            \* the request that made the last call, 0 before any
    t_switches,        \* how often the call passed to the other request
    \* one call of write_content of the repository
    wc_pc,             \* "idle", "cleaning" (inside the loop), "returned", "raised"
    wc_requests,       \* argument requests
    wc_rest,           \* the requests the loop has not visited yet
    cleaned_requests,  \* the local list cleaned_requests
    skipped_count,     \* the local counter skipped_count
    wc_batches,        \* the bodies given to batchUpdate
    wc_result          \* "none", "message" (no batch), "result" (of the API)

cvars == <<cv_pc, markdown_content, start_index, lines, current_index, requests, prior_start,
           this_line, line_start, line_requests>>

pvars == <<pl_pc, pl_mode, snapshot, pl_data, location_index, fill_requests,
           pl_status, pl_doc>>

wvars == <<w_pc, w_md, before_md, has_table, table_data, after_md, end_index,
           calls, w_result, remote_doc, writes, rendered>>

svars == <<sp_pc, sp_markdown, sp_result>>

tvars == <<t_pc, t_md, t_frames, t_docs, t_calls, t_last, t_switches>>

fvars == <<wc_pc, wc_requests, wc_rest, cleaned_requests, skipped_count, wc_batches,
           wc_result>>

vars == <<cv_pc, markdown_content, start_index, lines, current_index, requests,
          this_line, line_start, line_requests, prior_start,
          pl_pc, pl_mode, snapshot, pl_data, location_index, fill_requests,
          pl_status, pl_doc,
          w_pc, w_md, before_md, has_table, table_data, after_md, end_index,
          calls, w_result, remote_doc, writes, rendered,
          sp_pc, sp_markdown, sp_result,
          t_pc, t_md, t_frames, t_docs, t_calls, t_last, t_switches,
          wc_pc, wc_requests, wc_rest, cleaned_requests, skipped_count, wc_batches,
          wc_result>>

\* ------------------------------------------------------------------------
\* Bounds of the model
\* ------------------------------------------------------------------------
MaxChars == 3

MaxBody == 2

MaxLines == 2

MaxCells == 3

MaxDataRows == 2

MaxDataCols == 2

MaxWriteLines == 3

MaxWrites == 2

MaxSplitRows == 2

\* ------------------------------------------------------------------------
\* Characters and Python string helpers
\* ------------------------------------------------------------------------
NL == "\n"

Whitespace == {" ", NL}

Digits == {"1"}

\* Python's None where a text is expected: a value that is no text
None == <<"None">>

\* the text of an insertText that has no key "text"
Missing == <<"Missing">>

\* the backtick character (a string of TLA+ cannot hold a backtick itself)
Tick == "~"

StartsWith(s, p) ==
    /\ Len(s) >= Len(p)
    /\ SubSeq(s, 1, Len(p)) = p

EndsWith(s, p) ==
    /\ Len(s) >= Len(p)
    /\ SubSeq(s, Len(s) - Len(p) + 1, Len(s)) = p

\* s[k:] of Python
DropFirst(s, k) == SubSeq(s, k + 1, Len(s))

\* s[k:-k] of Python (empty when the two ends meet or cross)
StripEnds(s, k) == SubSeq(s, k + 1, Len(s) - k)

\* "not s.strip()": only whitespace, or nothing at all
IsBlank(s) == \A i \in 1..Len(s) : s[i] \in Whitespace

\* position of the first occurrence of p in s at or after i, 0 when there is none
RECURSIVE FindFrom(_, _, _)
FindFrom(s, p, i) ==
    IF i + Len(p) - 1 > Len(s) THEN 0
    ELSE IF SubSeq(s, i, i + Len(p) - 1) = p THEN i
    ELSE FindFrom(s, p, i + 1)

\* s.split("\n"): always at least one piece
RECURSIVE SplitNL(_)
SplitNL(s) ==
    LET j == FindFrom(s, <<NL>>, 1)
    IN  IF j = 0 THEN <<s>>
        ELSE <<SubSeq(s, 1, j - 1)>> \o SplitNL(DropFirst(s, j))

RECURSIVE Concat(_)
Concat(ss) == IF ss = <<>> THEN <<>> ELSE Head(ss) \o Concat(Tail(ss))

\* "\n".join(lines)
RECURSIVE JoinNL(_)
JoinNL(ls) ==
    IF ls = <<>> THEN <<>>
    ELSE IF Len(ls) = 1 THEN ls[1]
    ELSE ls[1] \o <<NL>> \o JoinNL(Tail(ls))

\* ------------------------------------------------------------------------
\* MarkdownToGoogleDocsConverter (app/utils/markdown_converter.py)
\* Every helper takes the cursor (self.current_index) and returns the
\* requests it produced together with the cursor it leaves.
\* ------------------------------------------------------------------------
InsertText(i, t) == [op |-> "insertText", index |-> i, text |-> t]

RangeOp(o, s, e, st) == [op |-> o, startIndex |-> s, endIndex |-> e, style |-> st]

Out(reqs, cur) == [requests |-> reqs, current_index |-> cur]

\* mutant: the cursor moves by one per insert instead of by len(text)
CreateInsertTextRequestStepOne(cur, text) ==
    IF text = None THEN Out(<<>>, cur)
    ELSE IF text = <<>> THEN Out(<<>>, cur)
    ELSE Out(<<InsertText(cur, text)>>, cur + 1)

\* _create_insert_text_request: nothing for an empty text, else the insert
\* at the cursor, and the cursor moves by len(text)
CreateInsertTextRequest(cur, text) ==
    IF text = None THEN Out(<<>>, cur)
    ELSE IF text = <<>> THEN Out(<<>>, cur)
    ELSE Out(<<InsertText(cur, text)>>, cur + Len(text))

\* one alternative of the inline pattern, d .*? d, tried at position i:
\* the position after the match, 0 when it does not match there
AfterClosing(j, d) == IF j = 0 THEN 0 ELSE j + Len(d)

MatchDelim(text, d, i) ==
    IF i + Len(d) - 1 <= Len(text) /\ SubSeq(text, i, i + Len(d) - 1) = d
    THEN AfterClosing(FindFrom(text, d, i + Len(d)), d)
    ELSE 0

\* the alternation of the inline pattern at position i (triple asterisk,
\* double asterisk, single asterisk, backtick): the first alternative that
\* matches wins
OrElse(m, other) == IF m > 0 THEN m ELSE other

\* mutant: the double asterisk is tried before the triple asterisk
MatchAtDoubleFirst(text, i) ==
    OrElse(MatchDelim(text, <<"*", "*">>, i),
        OrElse(MatchDelim(text, <<"*", "*", "*">>, i),
            OrElse(MatchDelim(text, <<"*">>, i),
                   MatchDelim(text, <<Tick>>, i))))

MatchAt(text, i) ==
    OrElse(MatchDelim(text, <<"*", "*", "*">>, i),
        OrElse(MatchDelim(text, <<"*", "*">>, i),
            OrElse(MatchDelim(text, <<"*">>, i),
                   MatchDelim(text, <<Tick>>, i))))

\* start of the leftmost match at or after i, 0 when there is none
RECURSIVE NextMatch(_, _)
NextMatch(text, i) ==
    IF i > Len(text) THEN 0
    ELSE IF MatchAt(text, i) > 0 THEN i
    ELSE NextMatch(text, i + 1)

\* re.split(pattern, text) with the capturing group: literal, match, literal, ...
RECURSIVE ReSplit(_)

\* the pieces of text whose leftmost match spans m..e-1
SplitMatch(text, m, e) ==
    <<SubSeq(text, 1, m - 1), SubSeq(text, m, e - 1)>> \o ReSplit(DropFirst(text, e - 1))

\* the pieces of text whose leftmost match starts at m (0: no match)
SplitAt(text, m) == IF m = 0 THEN <<text>> ELSE SplitMatch(text, m, MatchAt(text, m))

ReSplit(text) == SplitAt(text, NextMatch(text, 1))

\* mutant: the payload is inserted without looking whether it is empty
StyledPartUnguarded(cur, clean_text, style) ==
    Out(<<InsertText(cur, clean_text),
          RangeOp("updateTextStyle", cur, cur + Len(clean_text), style)>>,
        cur + Len(clean_text))

\* mutant: the style operation takes a position of its own
StyledPartAdvancing(cur, clean_text, style) ==
    IF clean_text = <<>> THEN Out(<<>>, cur)
    ELSE Out(<<InsertText(cur, clean_text),
               RangeOp("updateTextStyle", cur, cur + Len(clean_text), style)>>,
             cur + Len(clean_text) + 1)

\* mutant: the style operation is emitted before the insert of its payload
StyledPartStyleFirst(cur, clean_text, style) ==
    IF clean_text = <<>> THEN Out(<<>>, cur)
    ELSE Out(<<RangeOp("updateTextStyle", cur, cur + Len(clean_text), style),
               InsertText(cur, clean_text)>>,
             cur + Len(clean_text))

\* mutant: an empty payload still yields its style operation
StyledPartEmptySpan(cur, clean_text, style) ==
    IF clean_text = <<>> THEN Out(<<RangeOp("updateTextStyle", cur, cur, style)>>, cur)
    ELSE Out(<<InsertText(cur, clean_text),
               RangeOp("updateTextStyle", cur, cur + Len(clean_text), style)>>,
             cur + Len(clean_text))

\* a marked segment: the payload, then the style over exactly the payload
StyledPart(cur, clean_text, style) ==
    IF clean_text = <<>> THEN Out(<<>>, cur)
    ELSE LET ins == CreateInsertTextRequest(cur, clean_text)
         IN  IF ins.requests = <<>> THEN Out(<<>>, cur)
             ELSE Out(ins.requests \o
                        <<RangeOp("updateTextStyle", cur, ins.current_index, style)>>,
                      ins.current_index)

\* body of the loop "for part in parts"
InlinePart(cur, part) ==
    IF part = <<>> THEN Out(<<>>, cur)
    ELSE IF StartsWith(part, <<"*", "*", "*">>) /\ EndsWith(part, <<"*", "*", "*">>)
        THEN StyledPart(cur, StripEnds(part, 3), "bold_italic")
    ELSE IF StartsWith(part, <<"*", "*">>) /\ EndsWith(part, <<"*", "*">>)
        THEN StyledPart(cur, StripEnds(part, 2), "bold")
    ELSE IF StartsWith(part, <<"*">>) /\ EndsWith(part, <<"*">>)
        THEN StyledPart(cur, StripEnds(part, 1), "italic")
    ELSE IF StartsWith(part, <<Tick>>) /\ EndsWith(part, <<Tick>>)
        THEN StyledPart(cur, StripEnds(part, 1), "code")
    ELSE CreateInsertTextRequest(cur, part)

\* the requests of h, then those of t, which went on from h's cursor
Then(h, t) == Out(h.requests \o t.requests, t.current_index)

RECURSIVE InlineParts(_, _)

InlineRest(h, rest) == Then(h, InlineParts(h.current_index, rest))

InlineParts(cur, parts) ==
    IF parts = <<>> THEN Out(<<>>, cur)
    ELSE InlineRest(InlinePart(cur, Head(parts)), Tail(parts))

\* _parse_inline_formatting
ParseInlineFormatting(cur, text) == InlineParts(cur, ReSplit(text))

\* _process_inline_formatting: the spans, then the newline of the paragraph
\* mutant: the paragraph is left without its newline
EndParagraphOpen(p) == p

EndParagraph(p) == Then(p, CreateInsertTextRequest(p.current_index, <<NL>>))

ProcessInlineFormatting(cur, text) == EndParagraph(ParseInlineFormatting(cur, text))

\* mutant: the heading style also covers the newline of the heading
ProcessHeadingOverNewline(cur, text, heading_style) ==
    LET ins == CreateInsertTextRequest(cur, text \o <<NL>>)
    IN  IF ins.requests = <<>> THEN Out(<<>>, cur)
        ELSE Out(ins.requests \o
                   <<RangeOp("updateParagraphStyle", cur, ins.current_index,
                             heading_style)>>,
                 ins.current_index)

\* _process_heading
ProcessHeading(cur, text, heading_style) ==
    LET ins == CreateInsertTextRequest(cur, text \o <<NL>>)
    IN  IF ins.requests = <<>> THEN Out(<<>>, cur)
        ELSE Out(ins.requests \o
                   <<RangeOp("updateParagraphStyle", cur, ins.current_index - 1,
                             heading_style)>>,
                 ins.current_index)

\* mutant: the bullets also cover the newline of the item
BulletedOverNewline(cur, item, preset) ==
    Out(item.requests \o
          <<RangeOp("createParagraphBullets", cur, item.current_index, preset)>>,
        item.current_index)

\* _process_bullet_list and _process_numbered_list differ in the preset only
Bulleted(cur, item, preset) ==
    Out(item.requests \o
          <<RangeOp("createParagraphBullets", cur, item.current_index - 1, preset)>>,
        item.current_index)

ProcessList(cur, text, preset) ==
    Bulleted(cur, EndParagraph(ParseInlineFormatting(cur, text)), preset)

ProcessBulletList(cur, text) == ProcessList(cur, text, "BULLET_DISC_CIRCLE_SQUARE")

ProcessNumberedList(cur, text) == ProcessList(cur, text, "NUMBERED_DECIMAL_ALPHA_ROMAN")

\* number of leading digits of a line
RECURSIVE LeadingDigits(_)
LeadingDigits(line) ==
    IF line # <<>> /\ Head(line) \in Digits THEN 1 + LeadingDigits(Tail(line)) ELSE 0

\* re.match(r"^\d+\. ", line)
IsNumbered(line) ==
    LET d == LeadingDigits(line)
    IN  d > 0 /\ StartsWith(DropFirst(line, d), <<".", " ">>)

\* the if/elif chain of convert for a line that is not blank
ConvertNonBlank(cur, line) ==
    IF StartsWith(line, <<"#", " ">>)
        THEN ProcessHeading(cur, DropFirst(line, 2), "HEADING_1")
    ELSE IF StartsWith(line, <<"#", "#", " ">>)
        THEN ProcessHeading(cur, DropFirst(line, 3), "HEADING_2")
    ELSE IF StartsWith(line, <<"#", "#", "#", " ">>)
        THEN ProcessHeading(cur, DropFirst(line, 4), "HEADING_3")
    ELSE IF StartsWith(line, <<"#", "#", "#", "#", " ">>)
        THEN ProcessHeading(cur, DropFirst(line, 5), "HEADING_4")
    ELSE IF StartsWith(line, <<"-", " ">>) \/ StartsWith(line, <<"*", " ">>)
        THEN ProcessBulletList(cur, DropFirst(line, 2))
    ELSE IF IsNumbered(line)
        THEN ProcessNumberedList(cur, DropFirst(line, LeadingDigits(line) + 2))
    ELSE ProcessInlineFormatting(cur, line)

\* mutant: the empty string yields no operation
ConvertLineSkipEmpty(cur, line) ==
    IF line = <<>> THEN Out(<<>>, cur)
    ELSE IF IsBlank(line) THEN CreateInsertTextRequest(cur, <<NL>>)
    ELSE ConvertNonBlank(cur, line)

\* body of the loop "for line in lines" of convert: a blank line is a
\* newline, any other line goes through the chain
ConvertLine(cur, line) ==
    IF IsBlank(line) THEN CreateInsertTextRequest(cur, <<NL>>)
    ELSE ConvertNonBlank(cur, line)

RECURSIVE ConvertLines(_, _)

LinesRest(h, rest) == Then(h, ConvertLines(h.current_index, rest))

ConvertLines(cur, ls) ==
    IF ls = <<>> THEN Out(<<>>, cur)
    ELSE LinesRest(ConvertLine(cur, Head(ls)), Tail(ls))

\* convert(markdown_content, start_index) as a whole
Convert(md, start) == ConvertLines(start, SplitNL(md))

\* ------------------------------------------------------------------------
\* Table placement (app/repositories/google_docs_repository.py)
\*
\* A snapshot is body.content of documents().get: a sequence of top-level
\* elements.  An element has a startIndex and, when it is a table, the
\* table: tableRows -> tableCells -> content -> paragraph.elements ->
\* startIndex.  Rows and columns are counted from 0 as enumerate does.
\* ------------------------------------------------------------------------
\* a startIndex that get() finds missing
NoIndex == -1

\* marks the IndexError of [][0]
IndexErr == -2

\* "start_index is None" of fill_first_table, "not start_idx" of fill_table_at_index
SkipsIndex(mode, idx) ==
    IF mode = "first" THEN idx = NoIndex ELSE idx = NoIndex \/ idx = 0

\* the anchor of one cell: the startIndex of the first content run of its
\* first paragraph, NoIndex when the cell is skipped, IndexErr when
\* fill_table_at_index indexes an empty elements list
CellAnchor(mode, cell) ==
    IF cell.content = <<>> THEN NoIndex
    ELSE LET first_paragraph == cell.content[1]
             elements ==
                 IF first_paragraph.has_elements THEN first_paragraph.elements
                 ELSE IF mode = "first" THEN <<>>
                 ELSE <<[startIndex |-> NoIndex]>>
         IN  IF elements = <<>>
             THEN (IF mode = "first" THEN NoIndex ELSE IndexErr)
             ELSE IF SkipsIndex(mode, elements[1].startIndex) THEN NoIndex
             ELSE elements[1].startIndex

\* the cells of one row, from column j on
RECURSIVE RowPositions(_, _, _, _)
RowPositions(mode, cells, i, j) ==
    IF j >= Len(cells) THEN <<>>
    ELSE LET a == CellAnchor(mode, cells[j + 1])
         IN  (IF a = NoIndex THEN <<>> ELSE <<<<a, i, j>>>>)
                 \o RowPositions(mode, cells, i, j + 1)

\* cell_positions before the sort: (start_index, row, column), row by row
RECURSIVE CellPositions(_, _, _)
CellPositions(mode, rows, i) ==
    IF i >= Len(rows) THEN <<>>
    ELSE RowPositions(mode, rows[i + 1].tableCells, i, 0)
             \o CellPositions(mode, rows, i + 1)

RaisesIndexError(positions) == \E k \in DOMAIN positions : positions[k][1] = IndexErr

\* mutant: the positions are left in the order of the cells
InsertDescUnsorted(x, sorted) == <<x>> \o sorted

\* mutant: the list is kept in ascending order (reverse=True forgotten)
RECURSIVE InsertDescAscending(_, _)
InsertDescAscending(x, sorted) ==
    IF sorted = <<>> THEN <<x>>
    ELSE IF x[1] <= Head(sorted)[1] THEN <<x>> \o sorted
    ELSE <<Head(sorted)>> \o InsertDescAscending(x, Tail(sorted))

\* x put into a list sorted by descending start index, before its equals
RECURSIVE InsertDesc(_, _)
InsertDesc(x, sorted) ==
    IF sorted = <<>> THEN <<x>>
    ELSE IF x[1] >= Head(sorted)[1] THEN <<x>> \o sorted
    ELSE <<Head(sorted)>> \o InsertDesc(x, Tail(sorted))

\* cell_positions.sort(key=lambda x: x[0], reverse=True): stable
RECURSIVE SortDesc(_)
SortDesc(positions) ==
    IF positions = <<>> THEN <<>>
    ELSE InsertDesc(Head(positions), SortDesc(Tail(positions)))

\* mutant: an empty text of the data is inserted like any other
FillOneKeepEmpty(pos, data) ==
    IF pos[2] >= Len(data) THEN <<>>
    ELSE IF pos[3] >= Len(data[pos[2] + 1]) THEN <<>>
    ELSE <<InsertText(pos[1], data[pos[2] + 1][pos[3] + 1])>>

\* body of the loop over cell_positions: what one position (start_index,
\* i, j) adds to the requests, clamped to the data
FillOne(pos, data) ==
    IF pos[2] >= Len(data) THEN <<>>
    ELSE IF pos[3] >= Len(data[pos[2] + 1]) THEN <<>>
    ELSE IF data[pos[2] + 1][pos[3] + 1] = <<>> THEN <<>>
    ELSE <<InsertText(pos[1], data[pos[2] + 1][pos[3] + 1])>>

\* the loop that builds the fill requests
RECURSIVE FillRequests(_, _)
FillRequests(positions, data) ==
    IF positions = <<>> THEN <<>>
    ELSE FillOne(Head(positions), data) \o FillRequests(Tail(positions), data)

\* index in content of the first table element, 0 when there is none
RECURSIVE FirstTable(_, _)
FirstTable(content, k) ==
    IF k > Len(content) THEN 0
    ELSE IF content[k].has_table THEN k
    ELSE FirstTable(content, k + 1)

\* index of the last table element, 0 when there is none
RECURSIVE LastTable(_, _)
LastTable(content, k) ==
    IF k < 1 THEN 0
    ELSE IF content[k].has_table THEN k
    ELSE LastTable(content, k - 1)

Abs(n) == IF n < 0 THEN 0 - n ELSE n

\* index of the first table element that starts within 1 of location_index
RECURSIVE NearTable(_, _, _)
NearTable(content, loc, k) ==
    IF k > Len(content) THEN 0
    ELSE IF content[k].has_table /\ Abs(content[k].startIndex - loc) <= 1 THEN k
    ELSE NearTable(content, loc, k + 1)

\* what a fill call comes to: how it ends and the batch it submits
\* (no batch when requests is empty)
FillResult(st, reqs) == [status |-> st, requests |-> reqs]

\* the part both fills share once the table is chosen (t = 0: none found)
FillTable(mode, content, t, data) ==
    IF t = 0 THEN FillResult("ValueError", <<>>)
    ELSE LET positions == CellPositions(mode, content[t].table.tableRows, 0)
         IN  IF RaisesIndexError(positions) THEN FillResult("IndexError", <<>>)
             ELSE FillResult("ok", FillRequests(SortDesc(positions), data))

\* fill_first_table up to its batchUpdate
FillFirstTable(content, data) ==
    FillTable("first", content, FirstTable(content, 1), data)

\* mutant: the last table is taken without looking for one near loc
FillTableAtIndexLastOnly(content, data, loc) ==
    FillTable("at_index", content, LastTable(content, Len(content)), data)

\* fill_table_at_index up to its batchUpdate
FillTableAtIndex(content, data, loc) ==
    LET near == NearTable(content, loc, 1)
        t == IF near # 0 THEN near ELSE LastTable(content, Len(content))
    IN  FillTable("at_index", content, t, data)

\* ------------------------------------------------------------------------
\* DocumentService._split_markdown_and_first_table
\* (app/services/document_service.py)
\* ------------------------------------------------------------------------
\* markdown.splitlines(): no piece for the end of the text after a final newline
SplitLines(md) ==
    IF md = <<>> THEN <<>>
    ELSE IF md[Len(md)] = NL THEN SplitNL(SubSeq(md, 1, Len(md) - 1))
    ELSE SplitNL(md)

\* "|" in line
HasPipe(line) == \E k \in DOMAIN line : line[k] = "|"

\* s.lstrip(chars)
RECURSIVE LStrip(_, _)
LStrip(s, chars) ==
    IF s # <<>> /\ Head(s) \in chars THEN LStrip(Tail(s), chars) ELSE s

\* s.rstrip(chars)
RECURSIVE RStrip(_, _)
RStrip(s, chars) ==
    IF s # <<>> /\ s[Len(s)] \in chars THEN RStrip(SubSeq(s, 1, Len(s) - 1), chars) ELSE s

\* s.strip(), s.strip("|")
Strip(s, chars) == RStrip(LStrip(s, chars), chars)

\* the common head of both separator patterns: \s*\|?\s* taken off the line
AfterLead(line) ==
    LET a == LStrip(line, Whitespace)
        b == IF a # <<>> /\ Head(a) = "|" THEN Tail(a) ELSE a
    IN  LStrip(b, Whitespace)

\* [-\s|:]* up to the end of the line
SepTail(s) == \A k \in DOMAIN s : s[k] \in ({"-", "|", ":"} \cup Whitespace)

\* re.match(r"^\s*\|?\s*-[-\s|:]*\|?\s*$", line)
IsOnlySeparators(line) ==
    LET r == AfterLead(line)
    IN  r # <<>> /\ Head(r) = "-" /\ SepTail(Tail(r))

\* re.match(r"^\s*\|?\s*:?-{3,}[-\s|:]*\|?\s*$", line)
IsSeparatorRow(line) ==
    LET a == AfterLead(line)
        r == IF a # <<>> /\ Head(a) = ":" THEN Tail(a) ELSE a
    IN  StartsWith(r, <<"-", "-", "-">>) /\ SepTail(DropFirst(r, 3))

\* s.split("|")
RECURSIVE SplitPipe(_)
SplitPipe(s) ==
    LET j == FindFrom(s, <<"|">>, 1)
    IN  IF j = 0 THEN <<s>>
        ELSE <<SubSeq(s, 1, j - 1)>> \o SplitPipe(DropFirst(s, j))

\* mutant: the cells keep the whitespace around them
ParseRowUntrimmed(line) == SplitPipe(Strip(Strip(line, Whitespace), {"|"}))

\* one table line to its cells
ParseRow(line) ==
    LET stripped == Strip(Strip(line, Whitespace), {"|"})
        cells == SplitPipe(stripped)
    IN  [k \in 1..Len(cells) |-> Strip(cells[k], Whitespace)]

\* the table lines to the matrix, the separator row (the second line) left out
RECURSIVE ParseTableLines(_, _)
ParseTableLines(table_lines, idx) ==
    IF idx >= Len(table_lines) THEN <<>>
    ELSE (IF idx = 1 /\ IsSeparatorRow(table_lines[idx + 1]) THEN <<>>
          ELSE <<ParseRow(table_lines[idx + 1])>>)
             \o ParseTableLines(table_lines, idx + 1)

\* first i (from 0) at or after i whose line opens a table, Len(ls) when none
RECURSIVE TableStart(_, _)
TableStart(ls, i) ==
    IF i >= Len(ls) THEN Len(ls)
    ELSE IF /\ HasPipe(ls[i + 1])
            /\ ~IsOnlySeparators(ls[i + 1])
            /\ i + 1 < Len(ls)
            /\ IsSeparatorRow(ls[i + 2])
         THEN i
    ELSE TableStart(ls, i + 1)

\* mutant: the line that stops the table is taken off the text after it
TableTailSkipping(ls, end) == JoinNL(SubSeq(ls, end + 2, Len(ls)))

\* after = "\n".join(lines[end:])
TableTail(ls, end) == JoinNL(SubSeq(ls, end + 1, Len(ls)))

\* while j < len(lines) and "|" in lines[j] and lines[j].strip(): j += 1
RECURSIVE TableEnd(_, _)
TableEnd(ls, j) ==
    IF j < Len(ls) /\ HasPipe(ls[j + 1]) /\ ~IsBlank(ls[j + 1])
    THEN TableEnd(ls, j + 1)
    ELSE j

\* mutant: the table runs to the end of the markdown
SplitMarkdownTableToEnd(md) ==
    LET ls == SplitLines(md)
        start == TableStart(ls, 0)
    IN  IF start = Len(ls)
        THEN [before |-> md, has_table |-> FALSE, table |-> <<>>, after |-> <<>>]
        ELSE [before |-> JoinNL(SubSeq(ls, 1, start)),
              has_table |-> TRUE,
              table |-> ParseTableLines(SubSeq(ls, start + 1, Len(ls)), 0),
              after |-> <<>>]

\* (before, table, after); has_table is FALSE where the code returns None for the table
SplitMarkdownAndFirstTable(md) ==
    LET ls == SplitLines(md)
        start == TableStart(ls, 0)
    IN  IF start = Len(ls)
        THEN [before |-> md, has_table |-> FALSE, table |-> <<>>, after |-> <<>>]
        ELSE LET end == TableEnd(ls, start + 2)
             IN  [before |-> JoinNL(SubSeq(ls, 1, start)),
                  has_table |-> TRUE,
                  table |-> ParseTableLines(SubSeq(ls, start + 1, end), 0),
                  after |-> TableTail(ls, end)]

\* ------------------------------------------------------------------------
\* The remote document and the Docs API, as the repository uses them.
\*
\* The document is the sequence of its positions from index 1 on; its last
\* position is the newline that ends the body.  A position is a character
\* of a paragraph of the body ("body") or of a table cell ("cell"), or the
\* start of a table ("T"), of a row ("R") or of a cell ("C").  An inserted
\* character joins the paragraph it is inserted into: it takes the kind of
\* the position it is inserted at.
\* ------------------------------------------------------------------------
Tok(c, k) == [ch |-> c, kind |-> k]

TextToks(text, k) == [n \in 1..Len(text) |-> Tok(text[n], k)]

\* one insertText of a batch
ApplyInsert(doc, req) ==
    SubSeq(doc, 1, req.index - 1)
        \o TextToks(req.text, doc[req.index].kind)
        \o SubSeq(doc, req.index, Len(doc))

\* the inserts of a batch, one after another in the order of the batch
RECURSIVE ApplyInserts(_, _)
ApplyInserts(doc, reqs) ==
    IF reqs = <<>> THEN doc
    ELSE ApplyInserts(ApplyInsert(doc, Head(reqs)), Tail(reqs))

\* a cell whose first paragraph has a content run that starts at a
OkCell(a) == [content |-> <<[has_elements |-> TRUE, elements |-> <<[startIndex |-> a]>>]>>]

NoTable == [tableRows |-> <<>>]

Element(s, e, is_table, t) ==
    [startIndex |-> s, endIndex |-> e, has_table |-> is_table, table |-> t]

\* the section break every body starts with: it ends at index 1
SectionBreak == Element(0, 1, FALSE, NoTable)

IsChar(tok) == tok.kind \in {"body", "cell"}

\* the positions of kind k among lo..hi, ascending
RECURSIVE KindPositions(_, _, _, _)
KindPositions(doc, k, lo, hi) ==
    IF lo > hi THEN <<>>
    ELSE (IF doc[lo].kind = k THEN <<lo>> ELSE <<>>) \o KindPositions(doc, k, lo + 1, hi)

\* the cells of the row that spans lo..hi
RowCells(doc, lo, hi) ==
    LET cs == KindPositions(doc, "C", lo, hi)
    IN  [tableCells |-> [n \in 1..Len(cs) |-> OkCell(cs[n] + 1)]]

\* the table that spans lo..hi (lo is its start)
TableAt(doc, lo, hi) ==
    LET rs == KindPositions(doc, "R", lo, hi)
    IN  [tableRows |->
            [n \in 1..Len(rs) |->
                RowCells(doc, rs[n], IF n < Len(rs) THEN rs[n + 1] - 1 ELSE hi)]]

\* first index after k that belongs to the body again
RECURSIVE TableStop(_, _)
TableStop(doc, k) ==
    IF k > Len(doc) \/ doc[k].kind = "body" THEN k ELSE TableStop(doc, k + 1)

\* index after the newline that ends the paragraph at k
RECURSIVE ParagraphStop(_, _)
ParagraphStop(doc, k) ==
    IF k > Len(doc) THEN k
    ELSE IF doc[k].ch = NL THEN k + 1
    ELSE ParagraphStop(doc, k + 1)

\* the top-level elements from index k on
RECURSIVE ContentFrom(_, _)
ContentFrom(doc, k) ==
    IF k > Len(doc) THEN <<>>
    ELSE IF doc[k].kind = "T"
        THEN LET e == TableStop(doc, k + 1)
             IN  <<Element(k, e, TRUE, TableAt(doc, k, e - 1))>> \o ContentFrom(doc, e)
    ELSE LET e == ParagraphStop(doc, k)
         IN  <<Element(k, e, FALSE, NoTable)>> \o ContentFrom(doc, e)

\* documents().get(...).execute(): body.content
GetContent(doc) == <<SectionBreak>> \o ContentFrom(doc, 1)

\* the characters of the document, in order
RECURSIVE PlainText(_)
PlainText(doc) ==
    IF doc = <<>> THEN <<>>
    ELSE (IF IsChar(Head(doc)) THEN <<Head(doc).ch>> ELSE <<>>) \o PlainText(Tail(doc))

DeleteContentRange(s, e) ==
    [op |-> "deleteContentRange", startIndex |-> s, endIndex |-> e, style |-> "none"]

InsertTableReq(r, c, i) == [op |-> "insertTable", rows |-> r, columns |-> c, index |-> i]

\* the positions a new table of r rows and c columns takes, the newline
\* the API puts in front of it included
RECURSIVE Repeat(_, _)
Repeat(toks, n) == IF n <= 0 THEN <<>> ELSE toks \o Repeat(toks, n - 1)

TableToks(r, c) ==
    <<Tok(NL, "body"), Tok("T", "T")>>
        \o Repeat(<<Tok("R", "R")>> \o Repeat(<<Tok("C", "C"), Tok(NL, "cell")>>, c), r)

\* whether the API accepts one request on the document as it is
RequestValid(doc, req) ==
    CASE req.op = "insertText" ->
            /\ Len(req.text) > 0
            /\ req.index >= 1 /\ req.index <= Len(doc)
            /\ IsChar(doc[req.index])
      [] req.op = "insertTable" ->
            /\ req.rows >= 1 /\ req.columns >= 1
            /\ req.index >= 1 /\ req.index <= Len(doc)
            /\ doc[req.index].kind = "body"
      [] req.op = "deleteContentRange" ->
            /\ req.startIndex >= 1 /\ req.startIndex < req.endIndex
            /\ req.endIndex <= Len(doc)
      [] OTHER ->
            /\ req.startIndex >= 1 /\ req.startIndex < req.endIndex
            /\ req.endIndex <= Len(doc) + 1

\* the document after one accepted request
ApplyRequest(doc, req) ==
    CASE req.op = "insertText" -> ApplyInsert(doc, req)
      [] req.op = "insertTable" ->
            SubSeq(doc, 1, req.index - 1) \o TableToks(req.rows, req.columns)
                \o SubSeq(doc, req.index, Len(doc))
      [] req.op = "deleteContentRange" ->
            SubSeq(doc, 1, req.startIndex - 1) \o SubSeq(doc, req.endIndex, Len(doc))
      [] OTHER -> doc

\* whether batchUpdate accepts the batch: every request is valid on the
\* document the requests before it have left
RECURSIVE BatchValid(_, _)
BatchValid(doc, reqs) ==
    IF reqs = <<>> THEN TRUE
    ELSE IF RequestValid(doc, Head(reqs))
        THEN BatchValid(ApplyRequest(doc, Head(reqs)), Tail(reqs))
    ELSE FALSE

\* documents().batchUpdate(...).execute() on an accepted batch
RECURSIVE BatchUpdate(_, _)
BatchUpdate(doc, reqs) ==
    IF reqs = <<>> THEN doc
    ELSE BatchUpdate(ApplyRequest(doc, Head(reqs)), Tail(reqs))

\* ------------------------------------------------------------------------
\* GoogleDocsRepository: what each method asks of the API
\* ------------------------------------------------------------------------
\* max_end_index of clear_document and get_document_end_index
RECURSIVE MaxEndIndex(_)
MaxEndIndex(content) ==
    IF content = <<>> THEN 1
    ELSE LET m == MaxEndIndex(Tail(content))
         IN  IF Head(content).endIndex > m THEN Head(content).endIndex ELSE m

\* mutant: the end of the last element, the final newline included
GetDocumentEndIndexPastEnd(content) == MaxEndIndex(content)

\* get_document_end_index
GetDocumentEndIndex(content) == MaxEndIndex(content) - 1

\* mutant: the document is taken to be empty already
ClearDocumentRequestsNone(content) == <<>>

\* mutant: the range is deleted without the test of line 174
ClearDocumentRequestsAlways(content) ==
    IF content = <<>> THEN <<>>
    ELSE <<DeleteContentRange(1, MaxEndIndex(content) - 1)>>

\* clear_document: the batch it submits, <<>> when it submits none
ClearDocumentRequests(content) ==
    IF content = <<>> THEN <<>>
    ELSE LET end == MaxEndIndex(content) - 1
         IN  IF end <= 1 THEN <<>> ELSE <<DeleteContentRange(1, end)>>

\* mutant: only the empty string is taken for an empty text
SkippedEmptyString(req) ==
    IF req.op = "insertText" THEN req.text = <<>> ELSE FALSE

\* lines 101-121: the request is an insertText without the key "text", or
\* with a text that is None or empty
Skipped(req) ==
    IF req.op = "insertText"
    THEN IF req.text = Missing THEN TRUE
         ELSE IF req.text = None THEN TRUE
         ELSE req.text = <<>>
    ELSE FALSE

\* write_content: the requests left after the empty inserts are taken out
RECURSIVE CleanedRequests(_)
CleanedRequests(reqs) ==
    IF reqs = <<>> THEN <<>>
    ELSE (IF Skipped(Head(reqs)) THEN <<>> ELSE <<Head(reqs)>>)
             \o CleanedRequests(Tail(reqs))

\* get_document_url
GetDocumentUrl(doc_id) == <<"https://docs.google.com/document/d/", doc_id, "/edit">>

\* ------------------------------------------------------------------------
\* Inputs of convert
\* ------------------------------------------------------------------------
SeqsUpTo(S, n) == UNION {[1..k -> S] : k \in 0..n}

Alphabet == {"a", "*", Tick, "#", " ", "-", "1", ".", NL}

\* every text of at most MaxChars characters
ShortTexts == SeqsUpTo(Alphabet, MaxChars)

Prefixes ==
    { <<>>, <<"#", " ">>, <<"#", "#", " ">>, <<"#", "#", "#", " ">>,
      <<"#", "#", "#", "#", " ">>, <<"#", "#", "#", "#", "#", " ">>,
      <<"-", " ">>, <<"*", " ">>, <<"1", ".", " ">>, <<"1", "1", ".", " ">>,
      <<"1", ".">>, <<" ">> }

Segments ==
    { <<"a">>, <<"*">>, <<Tick>>, <<"*", "i", "*">>, <<"*", "*", "b", "*", "*">>,
      <<"*", "*", "*", "x", "*", "*", "*">>, <<Tick, "c", Tick>>,
      <<"*", "*", "*", "*">> }

\* one line: a block prefix and at most MaxBody inline segments
MarkedLines ==
    { p \o Concat(b) : p \in Prefixes, b \in SeqsUpTo(Segments, MaxBody) }

TitleLine == <<"#", " ", "T", "i", "t", "l", "e">>

FewLines ==
    { <<>>, <<" ">>, <<"a">>, <<"#", " ", "a">>, <<"-", " ", "*", "i", "*">>,
      <<"1", ".", " ", "a">>, <<"*", "*", "b", "*", "*", "a">>, <<"-", " ">>, TitleLine,
      <<"*", "*", "*", "*", "*", "*">> }

\* documents of up to MaxLines lines
ManyLines == { JoinNL(ls) : ls \in SeqsUpTo(FewLines, MaxLines) }

Markdowns == ShortTexts \cup MarkedLines \cup ManyLines

StartIndices == {1, 7}

\* ------------------------------------------------------------------------
\* Inputs of the table fills
\* ------------------------------------------------------------------------
Perms(n) == {f \in [1..n -> 1..n] : \A a, b \in 1..n : a # b => f[a] # f[b]}

Identity(n) == [k \in 1..n |-> k]

Shapes == {sh \in (1..MaxCells) \X (1..MaxCells) : sh[1] * sh[2] <= MaxCells}

DefectKinds == {"nocontent", "noparagraph", "noelements", "nostart"}

DefectCell(kind) ==
    CASE kind = "nocontent" -> [content |-> <<>>]
      [] kind = "noparagraph" -> [content |-> <<[has_elements |-> FALSE, elements |-> <<>>]>>]
      [] kind = "noelements" -> [content |-> <<[has_elements |-> TRUE, elements |-> <<>>]>>]
      [] kind = "nostart" ->
             [content |-> <<[has_elements |-> TRUE, elements |-> <<[startIndex |-> NoIndex]>>]>>]

\* a table of shape sh that starts at b: cell number k (row by row) begins
\* at b + 2 * perm[k]; cell number bad, if any, has no usable content run
MakeTable(sh, b, perm, bad, kind) ==
    [tableRows |->
        [i \in 1..sh[1] |->
            [tableCells |->
                [j \in 1..sh[2] |->
                    LET k == (i - 1) * sh[2] + j
                    IN  IF k = bad THEN DefectCell(kind)
                        ELSE OkCell(b + 2 * perm[k])]]]]

\* sound tables, their cells at any distinct offsets in any order
SoundTables(b) ==
    {MakeTable(sh, b, perm, 0, "nocontent") : sh \in Shapes, perm \in Perms(MaxCells)}

\* tables with one cell that has no content run
DefectTables(b) ==
    UNION {{MakeTable(sh, b, Identity(MaxCells), bad, kind) :
                bad \in 1..(sh[1] * sh[2]), kind \in DefectKinds} : sh \in Shapes}

Letters == <<"p", "q", "r", "s", "t", "u", "v", "w">>

\* the text for row i, column j of the data: one or two characters
CellText(i, j) ==
    LET c == Letters[((i * 3 + j) % Len(Letters)) + 1]
    IN  IF (i + j) % 2 = 1 THEN <<c, c>> ELSE <<c>>

DataOf(m) ==
    [i \in 1..Len(m) |->
        [j \in 1..Len(m[i]) |-> IF m[i][j] THEN CellText(i - 1, j - 1) ELSE <<>>]]

\* every ragged matrix of at most MaxDataRows rows of at most MaxDataCols
\* texts, none of them empty
RaggedData ==
    {DataOf([i \in 1..Len(w) |-> [j \in 1..w[i] |-> TRUE]]) :
        w \in SeqsUpTo(0..MaxDataCols, MaxDataRows)}

\* the full matrices with one empty text
HoledData ==
    {DataOf([i \in 1..MaxDataRows |-> [j \in 1..MaxDataCols |-> <<i, j>> # hole]]) :
        hole \in (1..MaxDataRows) \X (1..MaxDataCols)}

\* a text for every cell a table can have
FullData == DataOf([i \in 1..MaxCells |-> [j \in 1..MaxCells |-> TRUE]])

Para(s) == [startIndex |-> s, has_table |-> FALSE, table |-> [tableRows |-> <<>>]]

TableEl(s, t) == [startIndex |-> s, has_table |-> TRUE, table |-> t]

FirstStart == 2

SecondStart == FirstStart + 2 * MaxCells + 4

PlanDocLen == SecondStart + 2 * MaxCells + 1

OtherTable(b) == MakeTable(<<1, 1>>, b, Identity(1), 0, "nocontent")

\* a snapshot with one table
Alone(t) == <<Para(1), TableEl(FirstStart, t)>>

\* (snapshot, data) pairs
PlanInputs ==
    \* one sound table, its anchors in any order, and data of any shape
    {<<Alone(t), d>> : t \in SoundTables(FirstStart),
                       d \in RaggedData \cup HoledData \cup {FullData}}
    \cup
    \* one table with a cell that has no content run
    {<<Alone(t), FullData>> : t \in DefectTables(FirstStart)}
    \cup
    \* two tables, the one to fill second or first
    UNION {{<<<<TableEl(FirstStart, OtherTable(FirstStart)), Para(SecondStart - 2),
                TableEl(SecondStart, MakeTable(sh, SecondStart, Identity(MaxCells),
                                               0, "nocontent"))>>, FullData>>,
            <<<<TableEl(FirstStart, MakeTable(sh, FirstStart, Identity(MaxCells),
                                              0, "nocontent")),
                Para(SecondStart - 2),
                TableEl(SecondStart, OtherTable(SecondStart))>>, FullData>>} :
               sh \in Shapes}
    \cup
    \* no table at all
    {<<<<Para(1)>>, FullData>>}

Locations == {FirstStart - 1, FirstStart + 2, SecondStart + 1, PlanDocLen + 5}

\* the document before the fill: position k holds the character "k"
PlanDoc == [k \in 1..PlanDocLen |-> Tok(ToString(k), "body")]

\* ------------------------------------------------------------------------
\* SpecPlan: one call of fill_first_table or fill_table_at_index
\* ------------------------------------------------------------------------
InitPlan ==
    /\ pl_pc = "idle"
    /\ pl_mode = "first"
    /\ snapshot = <<>>
    /\ pl_data = <<>>
    /\ location_index = 0
    /\ fill_requests = <<>>
    /\ pl_status = "ok"
    /\ pl_doc = PlanDoc

\* the end of a fill: the batch, if any, is applied by batchUpdate
FillEnds(res) ==
    /\ pl_status' = res.status
    /\ fill_requests' = res.requests
    /\ pl_pc' = IF res.status = "ok" THEN "returned" ELSE "raised"
    /\ pl_doc' = ApplyInserts(pl_doc, res.requests)

FillFirstTableCall ==
    /\ pl_pc = "idle"
    /\ \E inp \in PlanInputs :
         /\ snapshot' = inp[1]
         /\ pl_data' = inp[2]
         /\ FillEnds(FillFirstTable(inp[1], inp[2]))
    /\ pl_mode' = "first"
    /\ UNCHANGED location_index
    /\ UNCHANGED <<cvars, wvars, svars, tvars, fvars>>

FillTableAtIndexCall ==
    /\ pl_pc = "idle"
    /\ \E inp \in PlanInputs, loc \in Locations :
         /\ snapshot' = inp[1]
         /\ pl_data' = inp[2]
         /\ location_index' = loc
         /\ FillEnds(FillTableAtIndex(inp[1], inp[2], loc))
    /\ pl_mode' = "at_index"
    /\ UNCHANGED <<cvars, wvars, svars, tvars, fvars>>

NextPlan == FillFirstTableCall \/ FillTableAtIndexCall

\* ------------------------------------------------------------------------
\* Inputs of write_markdown_to_document
\* ------------------------------------------------------------------------
HeadingLine == <<"#", " ", "H">>

HeaderLine == <<"a", "|", "b">>

SeparatorLine == <<"-", "-", "-", "|", "-", "-", "-">>

RowLine == <<"1", "|", "2">>

FooterLine == <<"f", "o", "o", "t", "e", "r">>

WriteLines == {<<>>, <<"*", "t", "*">>, <<"-", " ">>, HeaderLine, SeparatorLine, RowLine}

\* the documents of the request schema: not blank, and stripped
Stripped(md) == md # <<>> /\ md[1] \notin Whitespace /\ md[Len(md)] \notin Whitespace

\* "# H\n\na|b\n---|---\n1|2\n\nfooter" and the like
\* two tables with a line of text between them
TwoTables ==
    JoinNL(<<HeaderLine, SeparatorLine, RowLine, <<"x">>,
             HeaderLine, SeparatorLine, RowLine>>)

MixedDocuments ==
    { JoinNL(<<HeadingLine, <<>>, HeaderLine, SeparatorLine, RowLine, <<>>, FooterLine>>),
      JoinNL(<<HeadingLine, HeaderLine, SeparatorLine, RowLine, <<"3">>, FooterLine>>),
      JoinNL(<<HeaderLine, SeparatorLine, <<"1", "|", "2", "|", "3">>, <<"|">>>>),
      JoinNL(<<<<"x">>, <<"|">>, <<"-", "-", "-">>, <<"|">>, <<"y">>>>),
      JoinNL(<<<<"|">>, <<"-", "-", "-">>, <<"|">>, <<"y">>>>),
      TwoTables }

WriteMarkdowns ==
    {md \in {JoinNL(ls) : ls \in SeqsUpTo(WriteLines, MaxWriteLines)} : Stripped(md)}
        \cup {md \in MixedDocuments : MaxWriteLines > 0}

EmptyDoc == <<Tok(NL, "body")>>

\* documents a request can find: empty, text only, text and a table
InitialDocs ==
    { EmptyDoc,
      <<Tok("x", "body"), Tok(NL, "body")>>,
      BatchUpdate(EmptyDoc, <<InsertText(1, <<"x", NL>>), InsertTableReq(1, 2, 3),
                              InsertText(7, <<"y">>)>>) }

DocId == "1BxiMVs0XRA5"

\* what a collaborator call can raise: an HttpError with its status_code
\* and error_details, or another exception with its str()
Failure(k, st, m) == [kind |-> k, status |-> st, message |-> m]

NoFailure == Failure("none", 0, "")

\* the API refuses a batch it finds invalid
InvalidBatch == Failure("HttpError", 400, "Invalid requests")

\* fill_first_table finds no table
NoTableFound == Failure("ValueError", 0, "No se encontro una tabla en el documento para rellenar.")

Failures ==
    { Failure("HttpError", 404, "Requested entity was not found."),
      Failure("HttpError", 403, "The caller does not have permission"),
      Failure("HttpError", 500, "Internal error encountered."),
      Failure("TimeoutError", 0, "timed out") }

\* ------------------------------------------------------------------------
\* SpecWrite: DocumentService.write_markdown_to_document, one collaborator
\* call of the service per step
\* ------------------------------------------------------------------------
\* what an invocation ends with: the dictionary it returns (type "success")
\* or the exception it raises (type is the class of the exception, message
\* its fixed text, status and detail what it quotes of the failure)
Result(t, m, st, d, id, url) ==
    [type |-> t, message |-> m, status |-> st, detail |-> d,
     document_id |-> id, document_url |-> url]

NoResult == Result("none", "", 0, "", "", <<>>)

\* the dictionary the service returns
SuccessResult ==
    Result("success", "Contenido escrito exitosamente en el documento", 0, "",
           DocId, GetDocumentUrl(DocId))

DoesNotExist == Result("ValueError", "El documento no existe", 0, "", "", <<>>)

NoPermission ==
    Result("ValueError", "No hay permisos para acceder al documento. Verifica que la cuenta de servicio tenga acceso.",
           0, "", "", <<>>)

GoogleApiError(e) == Result("Exception", "Error de Google API: ", e.status, e.message, "", <<>>)

Unexpected(e) == Result("Exception", "Error al procesar la solicitud: ", 0, e.message, "", <<>>)

\* mutant: a 403 is handled like any other status
ClassifyOnly404(e) ==
    IF e.kind = "HttpError"
    THEN IF e.status = 404 THEN DoesNotExist ELSE GoogleApiError(e)
    ELSE Unexpected(e)

\* the two except clauses: what the service raises for a failure
Classify(e) ==
    IF e.kind = "HttpError"
    THEN IF e.status = 404 THEN DoesNotExist
         ELSE IF e.status = 403 THEN NoPermission
         ELSE GoogleApiError(e)
    ELSE Unexpected(e)

\* one collaborator call: its name, how it ended, the offset it was given
\* (anchor), the offset it returned (value), the batch it submitted, and
\* the end offset of the document when it was made
Call(name, err, anchor, value, batch) ==
    [call |-> name, ok |-> (err = NoFailure), err |-> err, anchor |-> anchor,
     value |-> value, batch |-> batch, end_before |-> Len(remote_doc)]

\* mutant: the service goes on with the next call after a failure
AfterFailureGoOn(pc) ==
    IF pc = "get_document" THEN "clear_document" ELSE "done"

\* an exception leaves the try block: nothing more is called
AfterFailure(pc) == "raised"

\* mutant: the text before the table is left out
AfterClearNoBefore(sp) ==
    IF ~sp.has_table THEN "write_content" ELSE "get_document_end_index"

\* mutant: the text before the table is written even when it is blank
AfterClearAlwaysBefore(sp) ==
    IF ~sp.has_table THEN "write_content" ELSE "write_before"

\* lines 52 and 65: the call after clear_document
AfterClear(sp) ==
    IF ~sp.has_table THEN "write_content"
    ELSE IF ~IsBlank(sp.before) THEN "write_before"
    ELSE "get_document_end_index"

\* mutant: the text after the table is left out
AfterFillStop(after) == "done"

\* line 83: the call after fill_first_table
AfterFill(after) == IF ~IsBlank(after) THEN "new_end_index" ELSE "done"

InitWrite ==
    /\ w_pc = "idle"
    /\ w_md = <<>>
    /\ before_md = <<>>
    /\ has_table = FALSE
    /\ table_data = <<>>
    /\ after_md = <<>>
    /\ end_index = 0
    /\ calls = <<>>
    /\ w_result = NoResult
    /\ remote_doc = EmptyDoc
    /\ writes = 0
    /\ rendered = <<>>

\* the call raises err
Raises(name, err, anchor, batch) ==
    /\ calls' = Append(calls, Call(name, err, anchor, 0, batch))
    /\ w_pc' = AfterFailure(w_pc)
    /\ w_result' = IF AfterFailure(w_pc) = "done" THEN SuccessResult ELSE Classify(err)
    /\ UNCHANGED <<w_md, before_md, has_table, table_data, after_md, end_index,
                   remote_doc, writes, rendered>>

\* the call returns and the service goes on at next
Returns(name, anchor, value, batch, next) ==
    /\ calls' = Append(calls, Call(name, NoFailure, anchor, value, batch))
    /\ w_pc' = next
    /\ remote_doc' = BatchUpdate(remote_doc, batch)
    /\ w_result' = IF next = "done" THEN SuccessResult ELSE w_result
    /\ rendered' = IF next = "done" THEN Append(rendered, remote_doc') ELSE rendered
    /\ UNCHANGED <<w_md, writes>>

\* a call that reads the document only
Reads(name, value, next) ==
    \/ Returns(name, 0, value, <<>>, next)
    \/ \E err \in Failures : Raises(name, err, 0, <<>>)

\* a call that submits one batch; the API answers an invalid batch with
\* status 400 and applies nothing of it.  write_content calls the API only
\* when requests are left, the other methods read the document first
Submits(name, anchor, batch, next) ==
    \/ /\ BatchValid(remote_doc, batch)
       /\ Returns(name, anchor, 0, batch, next)
    \/ /\ ~BatchValid(remote_doc, batch)
       /\ Raises(name, InvalidBatch, anchor, batch)
    \/ /\ name = "write_content" => batch # <<>>
       /\ \E err \in Failures : Raises(name, err, anchor, batch)

\* a request arrives; the second and later requests render the same markdown
WriteCall ==
    /\ w_pc \in {"idle", "done", "raised"}
    /\ writes < MaxWrites
    /\ \E md \in (IF writes = 0 THEN WriteMarkdowns ELSE {w_md}) : w_md' = md
    /\ writes' = writes + 1
    /\ w_pc' = "get_document"
    /\ calls' = <<>>
    /\ w_result' = NoResult
    /\ before_md' = <<>>
    /\ has_table' = FALSE
    /\ table_data' = <<>>
    /\ after_md' = <<>>
    /\ end_index' = 0
    /\ UNCHANGED <<remote_doc, rendered>>
    /\ UNCHANGED <<cvars, pvars, svars, tvars, fvars>>

\* the owner of the document edits it before the service is asked to write
EditDocument ==
    /\ w_pc = "idle"
    /\ \E d \in InitialDocs \ {remote_doc} : remote_doc' = d
    /\ UNCHANGED <<w_pc, w_md, before_md, has_table, table_data, after_md, end_index,
                   calls, w_result, writes, rendered>>
    /\ UNCHANGED <<cvars, pvars, svars, tvars, fvars>>

\* line 40: _ = self.repository.get_document(doc_id)
GetDocumentStep ==
    /\ w_pc = "get_document"
    /\ Reads("get_document", 0, "clear_document")
    /\ UNCHANGED <<before_md, has_table, table_data, after_md, end_index>>
    /\ UNCHANGED <<cvars, pvars, svars, tvars, fvars>>

\* lines 44-49: clear_document, then the split of the markdown
ClearDocumentStep ==
    /\ w_pc = "clear_document"
    /\ LET sp == SplitMarkdownAndFirstTable(w_md)
           batch == ClearDocumentRequests(GetContent(remote_doc))
       IN  \/ /\ BatchValid(remote_doc, batch)
              /\ Returns("clear_document", 0, 0, batch, AfterClear(sp))
              /\ before_md' = sp.before
              /\ has_table' = sp.has_table
              /\ table_data' = sp.table
              /\ after_md' = sp.after
              /\ UNCHANGED end_index
           \/ /\ ~BatchValid(remote_doc, batch)
              /\ Raises("clear_document", InvalidBatch, 0, batch)
           \/ \E err \in Failures : Raises("clear_document", err, 0, batch)
    /\ UNCHANGED <<cvars, pvars, svars, tvars, fvars>>

\* lines 54-56: no table, the whole text is written from index 1
WriteContentStep ==
    /\ w_pc = "write_content"
    /\ Submits("write_content", 1, CleanedRequests(Convert(before_md, 1).requests), "done")
    /\ UNCHANGED <<before_md, has_table, table_data, after_md, end_index>>
    /\ UNCHANGED <<cvars, pvars, svars, tvars, fvars>>

\* lines 65-68: the text before the table is written from index 1
WriteBeforeStep ==
    /\ w_pc = "write_before"
    /\ Submits("write_content", 1, CleanedRequests(Convert(before_md, 1).requests),
               "get_document_end_index")
    /\ UNCHANGED <<before_md, has_table, table_data, after_md, end_index>>
    /\ UNCHANGED <<cvars, pvars, svars, tvars, fvars>>

\* line 71: end_index = self.repository.get_document_end_index(doc_id)
EndIndexStep ==
    /\ w_pc = "get_document_end_index"
    /\ LET e == GetDocumentEndIndex(GetContent(remote_doc))
       IN  \/ /\ Returns("get_document_end_index", 0, e, <<>>, "insert_table")
              /\ end_index' = e
           \/ /\ \E err \in Failures : Raises("get_document_end_index", err, 0, <<>>)
    /\ UNCHANGED <<before_md, has_table, table_data, after_md>>
    /\ UNCHANGED <<cvars, pvars, svars, tvars, fvars>>

\* lines 72-77: the table is inserted at end_index
InsertTableStep ==
    /\ w_pc = "insert_table"
    /\ LET rows == Len(table_data)
           cols == IF rows > 0 THEN Len(table_data[1]) ELSE 0
       IN  Submits("insert_table", end_index, <<InsertTableReq(rows, cols, end_index)>>,
                   "fill_first_table")
    /\ UNCHANGED <<before_md, has_table, table_data, after_md, end_index>>
    /\ UNCHANGED <<cvars, pvars, svars, tvars, fvars>>

\* line 80: self.repository.fill_first_table(doc_id, table_data)
FillStep ==
    /\ w_pc = "fill_first_table"
    /\ LET res == FillFirstTable(GetContent(remote_doc), table_data)
       IN  \/ /\ res.status = "ok"
              /\ Submits("fill_first_table", 0, res.requests, AfterFill(after_md))
           \/ /\ res.status # "ok"
              /\ Raises("fill_first_table", NoTableFound, 0, <<>>)
    /\ UNCHANGED <<before_md, has_table, table_data, after_md, end_index>>
    /\ UNCHANGED <<cvars, pvars, svars, tvars, fvars>>

\* line 86: new_end_index = self.repository.get_document_end_index(doc_id)
NewEndIndexStep ==
    /\ w_pc = "new_end_index"
    /\ LET e == GetDocumentEndIndex(GetContent(remote_doc))
       IN  \/ /\ Returns("get_document_end_index", 0, e, <<>>, "write_after")
              /\ end_index' = e
           \/ /\ \E err \in Failures : Raises("get_document_end_index", err, 0, <<>>)
    /\ UNCHANGED <<before_md, has_table, table_data, after_md>>
    /\ UNCHANGED <<cvars, pvars, svars, tvars, fvars>>

\* lines 87-88: the text after the table is written from new_end_index
WriteAfterStep ==
    /\ w_pc = "write_after"
    /\ Submits("write_content", end_index,
               CleanedRequests(Convert(after_md, end_index).requests), "done")
    /\ UNCHANGED <<before_md, has_table, table_data, after_md, end_index>>
    /\ UNCHANGED <<cvars, pvars, svars, tvars, fvars>>

NextWrite ==
    \/ WriteCall
    \/ EditDocument
    \/ GetDocumentStep
    \/ ClearDocumentStep
    \/ WriteContentStep
    \/ WriteBeforeStep
    \/ EndIndexStep
    \/ InsertTableStep
    \/ FillStep
    \/ NewEndIndexStep
    \/ WriteAfterStep

\* ------------------------------------------------------------------------
\* SpecConv: one call of convert, the loop taken one line per step
\* ------------------------------------------------------------------------
\* prior_start of the first call on an instance
NoCall == 0

InitConv ==
    /\ cv_pc = "idle"
    /\ markdown_content = <<>>
    /\ start_index = 1
    /\ lines = <<>>
    /\ current_index = 1
    /\ requests = <<>>
    /\ this_line = <<>>
    /\ line_start = 1
    /\ line_requests = <<>>
    /\ prior_start = NoCall

\* mutant: the cursor goes on from where the instance has it
SeedCursorKept(left, start) == left

\* line 22: self.current_index = start_index
SeedCursor(left, start) == start

\* entry of convert, on a new instance or on one that has returned from a
\* call: requests = [], the cursor is reset, the text is split.  The first
\* call on an instance takes any of the markdowns, a later call one of the
\* few lines
ConvertCall ==
    /\ cv_pc = "idle"
    /\ \E md \in (IF prior_start = NoCall THEN Markdowns ELSE FewLines), s \in StartIndices :
         /\ markdown_content' = md
         /\ start_index' = s
         /\ current_index' = SeedCursor(current_index, s)
         /\ lines' = SplitNL(md)
    /\ requests' = <<>>
    /\ cv_pc' = "running"
    /\ UNCHANGED <<this_line, line_start, line_requests, prior_start>>
    /\ UNCHANGED <<pvars, wvars, svars, tvars, fvars>>

\* one iteration of "for line in lines"
ConvertStep ==
    /\ cv_pc = "running"
    /\ lines # <<>>
    /\ LET r == ConvertLine(current_index, Head(lines))
       IN  /\ requests' = requests \o r.requests
           /\ current_index' = r.current_index
           /\ line_requests' = r.requests
    /\ this_line' = Head(lines)
    /\ line_start' = current_index
    /\ lines' = Tail(lines)
    /\ UNCHANGED <<cv_pc, markdown_content, start_index, prior_start>>
    /\ UNCHANGED <<pvars, wvars, svars, tvars, fvars>>

\* return requests
ConvertReturn ==
    /\ cv_pc = "running"
    /\ lines = <<>>
    /\ cv_pc' = "returned"
    /\ UNCHANGED <<markdown_content, start_index, lines, current_index, requests,
                   this_line, line_start, line_requests, prior_start>>
    /\ UNCHANGED <<pvars, wvars, svars, tvars, fvars>>

\* the caller is done with the list it got: the locals of the call are
\* gone, the instance keeps self.current_index and can be called again
ConvertAgain ==
    /\ cv_pc = "returned"
    /\ cv_pc' = "idle"
    /\ prior_start' = start_index
    /\ markdown_content' = <<>>
    /\ start_index' = 1
    /\ lines' = <<>>
    /\ requests' = <<>>
    /\ this_line' = <<>>
    /\ line_start' = 1
    /\ line_requests' = <<>>
    /\ UNCHANGED current_index
    /\ UNCHANGED <<pvars, wvars, svars, tvars, fvars>>

NextConv == ConvertCall \/ ConvertStep \/ ConvertReturn \/ ConvertAgain

\* ------------------------------------------------------------------------
\* Inputs of _split_markdown_and_first_table: the markdown of a table
\* alone, written from its rows of cells in one of three styles, and the
\* mixed documents
\* ------------------------------------------------------------------------
SplitRows ==
    { << <<"a">>, <<"b">> >>, << <<"1">>, <<"2">> >>,
      << <<"a">>, <<>>, <<"b">> >>, << <<"a", "b">> >> }

RowStyles == {"plain", "outer", "padded"}

RECURSIVE JoinWith(_, _)
JoinWith(ss, sep) ==
    IF ss = <<>> THEN <<>>
    ELSE IF Len(ss) = 1 THEN ss[1]
    ELSE ss[1] \o sep \o JoinWith(Tail(ss), sep)

\* a|b, |a|b| and | a | b |
RenderRow(row, style) ==
    IF style = "plain" THEN JoinWith(row, <<"|">>)
    ELSE IF style = "outer" THEN <<"|">> \o JoinWith(row, <<"|">>) \o <<"|">>
    ELSE <<"|", " ">> \o JoinWith(row, <<" ", "|", " ">>) \o <<" ", "|">>

\* the separator row under a header of n columns
RenderSeparator(n, style) == RenderRow([k \in 1..n |-> <<"-", "-", "-">>], style)

\* every line of a plain table has a pipe only when it has two cells
PipeDelimited(rows, style) ==
    style = "plain" => \A k \in DOMAIN rows : Len(rows[k]) >= 2

\* a header row, at most MaxSplitRows data rows, a style, and whether the
\* markdown ends with a newline
TableInputs ==
    { t \in [rows : {<<h>> \o dr : h \in SplitRows, dr \in SeqsUpTo(SplitRows, MaxSplitRows)},
              style : RowStyles, nl : BOOLEAN] :
        PipeDelimited(t.rows, t.style) }

TableMarkdown(t) ==
    JoinNL(<<RenderRow(t.rows[1], t.style), RenderSeparator(Len(t.rows[1]), t.style)>>
             \o [k \in 1..(Len(t.rows) - 1) |-> RenderRow(t.rows[k + 1], t.style)])
        \o (IF t.nl THEN <<NL>> ELSE <<>>)

\* the mixed documents as they are, after an empty line, before a final
\* newline, and before an empty last line
SplitMarkdowns ==
    {TableMarkdown(t) : t \in TableInputs}
        \cup MixedDocuments \cup {md \o <<NL>> : md \in MixedDocuments}
        \cup {<<NL>> \o md : md \in MixedDocuments}
        \cup {md \o <<NL, NL>> : md \in MixedDocuments}
        \cup {md \in WriteMarkdowns : MaxSplitRows > 0}

NoSplit == [before |-> <<>>, has_table |-> FALSE, table |-> <<>>, after |-> <<>>]

\* ------------------------------------------------------------------------
\* SpecSplit: _split_markdown_and_first_table
\* ------------------------------------------------------------------------
InitSplit ==
    /\ sp_pc = "idle"
    /\ sp_markdown = <<>>
    /\ sp_result = NoSplit

\* entry of _split_markdown_and_first_table
SplitCall ==
    /\ sp_pc = "idle"
    /\ \E md \in SplitMarkdowns : sp_markdown' = md
    /\ sp_result' = NoSplit
    /\ sp_pc' = "called"
    /\ UNCHANGED <<cvars, pvars, wvars, tvars, fvars>>

\* the scan, the cut and the parse, up to the return of the triple
SplitReturn ==
    /\ sp_pc = "called"
    /\ sp_result' = SplitMarkdownAndFirstTable(sp_markdown)
    /\ sp_pc' = "returned"
    /\ UNCHANGED sp_markdown
    /\ UNCHANGED <<cvars, pvars, wvars, tvars, fvars>>

NextSplit == SplitCall \/ SplitReturn

\* ------------------------------------------------------------------------
\* SpecTwo: two requests to /write for two documents, their collaborator
\* calls taken in any order
\* ------------------------------------------------------------------------
Invocations == {1, 2}

\* the locals of one call of write_markdown_to_document
FrameRec(b, h, t, a, e) ==
    [before |-> b, has_table |-> h, table |-> t, after |-> a, end_index |-> e]

NoFrame == FrameRec(<<>>, FALSE, <<>>, <<>>, 0)

\* mutant: one service, and one set of its locals, serves every request
FrameShared(i) == 1

\* get_document_service builds a repository and a service for each
\* request: the locals and the converter of a request are its own
Frame(i) == i

\* lines 47-49: the locals after the split
SplitFrame(fr, sp) ==
    [fr EXCEPT !.before = sp.before, !.has_table = sp.has_table,
               !.table = sp.table, !.after = sp.after]

\* lines 71 and 86: the local end offset
WithEndIndex(fr, e) == [fr EXCEPT !.end_index = e]

\* lines 72-73
TableRows(fr) == Len(fr.table)

TableCols(fr) == IF Len(fr.table) > 0 THEN Len(fr.table[1]) ELSE 0

\* one collaborator call as the service makes it: the method, the offset
\* given to it, the offset it returns, the batch it submits, whether the
\* method raises by itself, the locals after it and the call after it
Outcome(name, anchor, value, batch, error, frame, next) ==
    [call |-> name, anchor |-> anchor, value |-> value, batch |-> batch,
     error |-> error, frame |-> frame, next |-> next]

\* write_markdown_to_document from the call at pc, on the document as it is
ServiceCall(pc, md, fr, doc) ==
    CASE pc = "get_document" ->
            Outcome("get_document", 0, 0, <<>>, FALSE, fr, "clear_document")
      [] pc = "clear_document" ->
            Outcome("clear_document", 0, 0, ClearDocumentRequests(GetContent(doc)), FALSE,
                    SplitFrame(fr, SplitMarkdownAndFirstTable(md)),
                    AfterClear(SplitMarkdownAndFirstTable(md)))
      [] pc = "write_content" ->
            Outcome("write_content", 1, 0, CleanedRequests(Convert(fr.before, 1).requests),
                    FALSE, fr, "done")
      [] pc = "write_before" ->
            Outcome("write_content", 1, 0, CleanedRequests(Convert(fr.before, 1).requests),
                    FALSE, fr, "get_document_end_index")
      [] pc = "get_document_end_index" ->
            Outcome("get_document_end_index", 0, GetDocumentEndIndex(GetContent(doc)), <<>>,
                    FALSE, WithEndIndex(fr, GetDocumentEndIndex(GetContent(doc))),
                    "insert_table")
      [] pc = "insert_table" ->
            Outcome("insert_table", fr.end_index, 0,
                    <<InsertTableReq(TableRows(fr), TableCols(fr), fr.end_index)>>,
                    FALSE, fr, "fill_first_table")
      [] pc = "fill_first_table" ->
            Outcome("fill_first_table", 0, 0,
                    FillFirstTable(GetContent(doc), fr.table).requests,
                    FillFirstTable(GetContent(doc), fr.table).status # "ok",
                    fr, AfterFill(fr.after))
      [] pc = "new_end_index" ->
            Outcome("get_document_end_index", 0, GetDocumentEndIndex(GetContent(doc)), <<>>,
                    FALSE, WithEndIndex(fr, GetDocumentEndIndex(GetContent(doc))),
                    "write_after")
      [] OTHER ->
            Outcome("write_content", fr.end_index, 0,
                    CleanedRequests(Convert(fr.after, fr.end_index).requests),
                    FALSE, fr, "done")

\* the method does not raise and the API accepts its batch
Accepted(o, doc) == ~o.error /\ BatchValid(doc, o.batch)

\* the call reaches the API, which can fail: write_content calls it only
\* with requests, the other methods read the document first
ReachesApi(o) == o.call = "write_content" => o.batch # <<>>

\* the call as the request has made it
CallOf(o, ok) ==
    [call |-> o.call, ok |-> ok, anchor |-> o.anchor,
     value |-> IF ok THEN o.value ELSE 0, batch |-> o.batch]

\* the documents the two requests find
FirstDocOf(i) == IF i = 1 THEN EmptyDoc ELSE <<Tok("x", "body"), Tok(NL, "body")>>

\* a text, a text around a table, a table alone, a table without data
TwoMarkdowns ==
    { HeadingLine,
      JoinNL(<<HeadingLine, <<>>, HeaderLine, SeparatorLine, RowLine, <<>>, FooterLine>>),
      JoinNL(<<HeaderLine, SeparatorLine, RowLine>>),
      JoinNL(<<<<"x">>, <<"|">>, <<"-", "-", "-">>, <<"|">>, <<"y">>>>) }

MaxSwitches == 2

InitTwo ==
    /\ t_pc = [i \in Invocations |-> "idle"]
    /\ t_md = [i \in Invocations |-> <<>>]
    /\ t_frames = [i \in Invocations |-> NoFrame]
    /\ t_docs = [i \in Invocations |-> FirstDocOf(i)]
    /\ t_calls = [i \in Invocations |-> <<>>]
    /\ t_last = 0
    /\ t_switches = 0

\* request i arrives: its service is built and the write starts
TwoCall(i) ==
    /\ t_pc[i] = "idle"
    /\ \E md \in TwoMarkdowns : t_md' = [t_md EXCEPT ![i] = md]
    /\ t_pc' = [t_pc EXCEPT ![i] = "get_document"]
    /\ t_frames' = [t_frames EXCEPT ![Frame(i)] = NoFrame]
    /\ UNCHANGED <<t_docs, t_calls, t_last, t_switches>>
    /\ UNCHANGED <<cvars, pvars, wvars, svars, fvars>>

Active(i) == t_pc[i] \notin {"idle", "done", "raised"}

\* the call request i is at
TwoOutcome(i) == ServiceCall(t_pc[i], t_md[i], t_frames[Frame(i)], t_docs[i])

\* request i has made a call
Noted(i) ==
    /\ t_last' = i
    /\ t_switches' = IF t_last \notin {0, i} /\ t_switches < MaxSwitches
                     THEN t_switches + 1 ELSE t_switches

\* the call o of request i returns
ReturnsWith(i, o) ==
    /\ Accepted(o, t_docs[i])
    /\ t_pc' = [t_pc EXCEPT ![i] = o.next]
    /\ t_frames' = [t_frames EXCEPT ![Frame(i)] = o.frame]
    /\ t_docs' = [t_docs EXCEPT ![i] = BatchUpdate(t_docs[i], o.batch)]
    /\ t_calls' = [t_calls EXCEPT ![i] = Append(t_calls[i], CallOf(o, TRUE))]

\* the next collaborator call of request i returns
TwoReturns(i) ==
    /\ Active(i)
    /\ ReturnsWith(i, TwoOutcome(i))
    /\ Noted(i)
    /\ UNCHANGED t_md
    /\ UNCHANGED <<cvars, pvars, wvars, svars, fvars>>

\* the call o of request i raises
RaisesWith(i, o) ==
    /\ IF Accepted(o, t_docs[i]) THEN ReachesApi(o) ELSE TRUE
    /\ t_pc' = [t_pc EXCEPT ![i] = "raised"]
    /\ t_calls' = [t_calls EXCEPT ![i] = Append(t_calls[i], CallOf(o, FALSE))]

\* the next collaborator call of request i raises: the method by itself,
\* or the API, which refuses the batch or fails
TwoRaises(i) ==
    /\ Active(i)
    /\ RaisesWith(i, TwoOutcome(i))
    /\ Noted(i)
    /\ UNCHANGED <<t_md, t_frames, t_docs>>
    /\ UNCHANGED <<cvars, pvars, wvars, svars, fvars>>

NextTwo == \E i \in Invocations : TwoCall(i) \/ TwoReturns(i) \/ TwoRaises(i)

\* ------------------------------------------------------------------------
\* SpecFilter: one call of GoogleDocsRepository.write_content, the loop
\* over the requests taken one request per step
\* ------------------------------------------------------------------------
MaxRequests == 3

\* requests a caller can pass: inserts with a text, with an empty text,
\* with None and without a text, and a request of another kind
FilterRequests ==
    { InsertText(1, <<"a">>), InsertText(2, <<"b">>), InsertText(3, <<>>),
      InsertText(4, None), InsertText(5, Missing),
      RangeOp("updateTextStyle", 1, 2, "bold") }

RequestLists == SeqsUpTo(FilterRequests, MaxRequests)

InitFilter ==
    /\ wc_pc = "idle"
    /\ wc_requests = <<>>
    /\ wc_rest = <<>>
    /\ cleaned_requests = <<>>
    /\ skipped_count = 0
    /\ wc_batches = <<>>
    /\ wc_result = "none"

\* lines 97-98: entry of write_content
WriteContentCall ==
    /\ wc_pc = "idle"
    /\ \E reqs \in RequestLists :
         /\ wc_requests' = reqs
         /\ wc_rest' = reqs
    /\ cleaned_requests' = <<>>
    /\ skipped_count' = 0
    /\ wc_pc' = "cleaning"
    /\ UNCHANGED <<wc_batches, wc_result>>
    /\ UNCHANGED <<cvars, pvars, wvars, svars, tvars>>

\* lines 100-123: one iteration of "for i, req in enumerate(requests)"
SanitizeStep ==
    /\ wc_pc = "cleaning"
    /\ wc_rest # <<>>
    /\ cleaned_requests' = IF Skipped(Head(wc_rest)) THEN cleaned_requests
                           ELSE Append(cleaned_requests, Head(wc_rest))
    /\ skipped_count' = IF Skipped(Head(wc_rest)) THEN skipped_count + 1
                        ELSE skipped_count
    /\ wc_rest' = Tail(wc_rest)
    /\ UNCHANGED <<wc_pc, wc_requests, wc_batches, wc_result>>
    /\ UNCHANGED <<cvars, pvars, wvars, svars, tvars>>

\* lines 131-136: nothing is left, the batchUpdate is left out
NoBatchReturn ==
    /\ wc_pc = "cleaning"
    /\ wc_rest = <<>>
    /\ cleaned_requests = <<>>
    /\ wc_pc' = "returned"
    /\ wc_result' = "message"
    /\ UNCHANGED <<wc_requests, wc_rest, cleaned_requests, skipped_count, wc_batches>>
    /\ UNCHANGED <<cvars, pvars, wvars, svars, tvars>>

\* lines 138-148: the batchUpdate of the cleaned requests returns
BatchReturn ==
    /\ wc_pc = "cleaning"
    /\ wc_rest = <<>>
    /\ cleaned_requests # <<>>
    /\ wc_batches' = Append(wc_batches, cleaned_requests)
    /\ wc_pc' = "returned"
    /\ wc_result' = "result"
    /\ UNCHANGED <<wc_requests, wc_rest, cleaned_requests, skipped_count>>
    /\ UNCHANGED <<cvars, pvars, wvars, svars, tvars>>

\* lines 149-151: the batchUpdate of the cleaned requests raises
BatchRaise ==
    /\ wc_pc = "cleaning"
    /\ wc_rest = <<>>
    /\ cleaned_requests # <<>>
    /\ wc_batches' = Append(wc_batches, cleaned_requests)
    /\ wc_pc' = "raised"
    /\ UNCHANGED <<wc_requests, wc_rest, cleaned_requests, skipped_count, wc_result>>
    /\ UNCHANGED <<cvars, pvars, wvars, svars, tvars>>

NextFilter ==
    WriteContentCall \/ SanitizeStep \/ NoBatchReturn \/ BatchReturn \/ BatchRaise

Init == InitConv /\ InitPlan /\ InitWrite /\ InitSplit /\ InitTwo /\ InitFilter

SpecConv == Init /\ [][NextConv]_vars

SpecPlan == Init /\ [][NextPlan]_vars

SpecWrite == Init /\ [][NextWrite]_vars

SpecSplit == Init /\ [][NextSplit]_vars

SpecTwo == Init /\ [][NextTwo]_vars

SpecFilter == Init /\ [][NextFilter]_vars

\* ------------------------------------------------------------------------
\* Properties of convert
\* ------------------------------------------------------------------------
IsInsert(r) == r.op = "insertText"

\* sum of len(text) over the InsertText operations of a list
RECURSIVE InsertedLength(_)
InsertedLength(rs) ==
    IF rs = <<>> THEN 0
    ELSE (IF IsInsert(Head(rs)) THEN Len(Head(rs).text) ELSE 0) + InsertedLength(Tail(rs))

NumInserts(rs) == Cardinality({k \in DOMAIN rs : IsInsert(rs[k])})

HasStyle(rs) == \E k \in DOMAIN rs : ~IsInsert(rs[k])

\* C1: when convert returns, the cursor equals startIndex plus the summed
\* length of the texts of all InsertText operations of the returned list.
CursorConsistency ==
    cv_pc = "returned" => current_index = start_index + InsertedLength(requests)

CursorConsistencyWitness ==
    /\ cv_pc = "returned"
    /\ start_index = 7
    /\ NumInserts(requests) >= 3
    /\ HasStyle(requests)
    /\ current_index = 7 + InsertedLength(requests)

\* C2: no InsertText operation produced by convert has an empty text.
NoEmptyInsert ==
    \A k \in DOMAIN requests : IsInsert(requests[k]) => Len(requests[k].text) > 0

\* an empty bold marker: the line yields its newline and nothing else
NoEmptyInsertWitness ==
    /\ cv_pc = "returned"
    /\ markdown_content = <<"*", "*", "*", "*">>
    /\ requests = <<InsertText(start_index, <<NL>>)>>

\* C3: the k-th InsertText sits at startIndex plus the summed length of the
\* inserts before it (ascending, contiguous, no overlap), and the cursor is
\* always startIndex plus the summed length of all inserts so far: an insert
\* of length L moves it by L, a style, paragraph-style or bullet operation
\* does not move it.
RunningIndices ==
    cv_pc # "idle" =>
        /\ \A k \in DOMAIN requests :
              IsInsert(requests[k]) =>
                  requests[k].index
                      = start_index + InsertedLength(SubSeq(requests, 1, k - 1))
        /\ current_index = start_index + InsertedLength(requests)

RunningIndicesWitness ==
    /\ cv_pc = "returned"
    /\ \E i, j, k \in DOMAIN requests :
         /\ i < j /\ j < k
         /\ IsInsert(requests[i]) /\ ~IsInsert(requests[j]) /\ IsInsert(requests[k])
         /\ requests[k].index = requests[i].index + Len(requests[i].text)
         /\ requests[i].index > start_index

\* ------------------------------------------------------------------------
\* Properties of the table fills
\* ------------------------------------------------------------------------
\* the start offsets of the cells of a table in the order of the cells
CellOffsets(t) ==
    LET pos == CellPositions("first", t.tableRows, 0)
    IN  [k \in 1..Len(pos) |-> pos[k][1]]

Indices(reqs) == [k \in 1..Len(reqs) |-> reqs[k].index]

\* C4: both fills emit their InsertText operations in descending order of
\* anchor offset, whatever the order of the anchors in the snapshot.
DescendingFillOrder ==
    \A k, l \in DOMAIN fill_requests :
        k < l => fill_requests[k].index > fill_requests[l].index

\* anchors met in an order like 50, 10, 30 are filled as 50, 30, 10
DescendingFillOrderWitness ==
    /\ pl_pc = "returned"
    /\ pl_mode = "at_index"
    /\ \E e \in DOMAIN snapshot :
         /\ snapshot[e].has_table
         /\ LET o == CellOffsets(snapshot[e].table)
            IN  /\ Len(o) = 3
                /\ o[1] > o[3] /\ o[3] > o[2]
                /\ Indices(fill_requests) = <<o[1], o[3], o[2]>>

\* the text a batch of fills puts in front of original position k
TextAt(reqs, k) ==
    IF \E n \in DOMAIN reqs : reqs[n].index = k
    THEN reqs[CHOOSE n \in DOMAIN reqs : reqs[n].index = k].text
    ELSE <<>>

\* the document in which every text stands right in front of the position
\* its anchor had in the snapshot
RECURSIVE AnchoredDoc(_, _)
AnchoredDoc(reqs, k) ==
    IF k > PlanDocLen THEN <<>>
    ELSE TextToks(TextAt(reqs, k), "body") \o <<PlanDoc[k]>> \o AnchoredDoc(reqs, k + 1)

\* applying the batch in order, every insert finds at its index the very
\* position the snapshot had there
RECURSIVE AnchorsStayValid(_, _)
AnchorsStayValid(doc, reqs) ==
    \/ reqs = <<>>
    \/ /\ doc[Head(reqs).index] = PlanDoc[Head(reqs).index]
       /\ AnchorsStayValid(ApplyInsert(doc, Head(reqs)), Tail(reqs))

\* C5: applied in emitted order to the document the snapshot was read from,
\* every fill insert lands at its cell's anchor of the original snapshot: no
\* insert applied before it lies at a lower offset, and in the end each
\* text stands exactly in front of the position its anchor named.
FillValidity ==
    pl_pc = "returned" =>
        /\ AnchorsStayValid(PlanDoc, fill_requests)
        /\ pl_doc = AnchoredDoc(fill_requests, 1)

FillValidityWitness ==
    /\ pl_pc = "returned"
    /\ pl_mode = "first"
    /\ Len(fill_requests) >= 3
    /\ \E n \in DOMAIN fill_requests : Len(fill_requests[n].text) = 2
    /\ Len(pl_doc) >= PlanDocLen + 4
    /\ \E e \in DOMAIN snapshot :
         /\ snapshot[e].has_table
         /\ LET o == CellOffsets(snapshot[e].table)
            IN  Len(o) = 3 /\ o[1] < o[2] /\ o[2] < o[3]

\* ------------------------------------------------------------------------
\* Properties of write_markdown_to_document
\* ------------------------------------------------------------------------
Mutations == {"write_content", "insert_table", "fill_first_table"}

IsMutation(c) == c.call \in Mutations

Last(cs) == cs[Len(cs)]

Failed(cs) == cs # <<>> /\ ~Last(cs).ok

TextBlock(text) == [call |-> "write_content", text |-> text, table |-> <<>>]

TableBlock(name, t) == [call |-> name, text |-> <<>>, table |-> t]

\* the mutating calls the blocks of a markdown ask for, in source order:
\* the text before the table, the table (inserted, then filled), the text
\* after the table; a text without table is one block
ExpectedMutations(md) ==
    LET sp == SplitMarkdownAndFirstTable(md)
    IN  IF ~sp.has_table THEN <<TextBlock(sp.before)>>
        ELSE (IF IsBlank(sp.before) THEN <<>> ELSE <<TextBlock(sp.before)>>)
             \o <<TableBlock("insert_table", sp.table), TableBlock("fill_first_table", sp.table)>>
             \o (IF IsBlank(sp.after) THEN <<>> ELSE <<TextBlock(sp.after)>>)

\* the texts of the cells the inserted table has room for
TableTexts(t) ==
    UNION {{t[i][j] : j \in DOMAIN t[i] \cap DOMAIN t[1]} : i \in DOMAIN t} \ {<<>>}

\* the call submitted what the block holds
Carries(c, block) ==
    CASE c.call = "write_content" ->
            c.batch = CleanedRequests(Convert(block.text, c.anchor).requests)
      [] c.call = "insert_table" ->
            c.batch = <<InsertTableReq(Len(block.table), Len(block.table[1]), c.anchor)>>
      [] OTHER ->
            {c.batch[n].text : n \in DOMAIN c.batch}
                = TableTexts(block.table)

\* C6: the clear precedes every write_content, insert_table and fill; the
\* blocks are written in source order (text before the table, the table,
\* text after the table); the success result carries document_id and
\* document_url and is produced only after every block has been processed.
OrchestrationOrder ==
    LET muts == SelectSeq(calls, IsMutation)
        exp == ExpectedMutations(w_md)
    IN  /\ \A i \in DOMAIN calls :
             IsMutation(calls[i]) =>
                 \E j \in 1..(i - 1) : calls[j].call = "clear_document" /\ calls[j].ok
        /\ Len(muts) <= Len(exp)
        /\ \A k \in DOMAIN muts :
             /\ muts[k].call = exp[k].call
             /\ muts[k].ok => Carries(muts[k], exp[k])
        /\ w_result.type = "success" =>
             /\ Len(muts) = Len(exp)
             /\ \A i \in DOMAIN calls : calls[i].ok
             /\ w_result.document_id = DocId
             /\ w_result.document_url = GetDocumentUrl(DocId)

\* a document with text before and after its table has been written
OrchestrationOrderWitness ==
    /\ w_result.type = "success"
    /\ Len(SelectSeq(calls, IsMutation)) = 4
    /\ Len(table_data) >= 2
    /\ \A k \in DOMAIN calls : IsMutation(calls[k]) => calls[k].batch # <<>>

\* the block of call i is anchored at the end offset that the call right
\* before it has read
AnchoredAtFreshRead(i) ==
    /\ i > 1
    /\ calls[i - 1].call = "get_document_end_index"
    /\ calls[i - 1].ok
    /\ calls[i].anchor = calls[i - 1].value

\* C7 as stated: before every block the end offset is read, and the block
\* is anchored at the value read, never at a constant.
FreshEndOffsetEveryBlock ==
    \A i \in DOMAIN calls :
        calls[i].call \in {"write_content", "insert_table"} => AnchoredAtFreshRead(i)

\* C7, amended: the table and the text after it are anchored at the end
\* offset read right before them; the first text block (the text before the
\* table, or a text without table) is anchored at the constant 1 without a
\* read, right after the clear, and 1 is then the end offset of the
\* document.  In both cases the anchor is the end offset the document has
\* when the block is written.
FreshEndOffset ==
    \A i \in DOMAIN calls :
        /\ calls[i].call = "insert_table" => AnchoredAtFreshRead(i)
        /\ calls[i].call = "write_content" =>
             \/ AnchoredAtFreshRead(i)
             \/ /\ i > 1
                /\ calls[i - 1].call = "clear_document"
                /\ calls[i - 1].ok
                /\ calls[i].anchor = 1
        /\ calls[i].call \in {"write_content", "insert_table"} =>
             /\ calls[i].anchor = calls[i].end_before
             /\ \A n \in DOMAIN calls[i].batch :
                  calls[i].batch[n].op \in {"insertText", "insertTable"} =>
                      calls[i].batch[n].index >= calls[i].anchor

\* text, table and text have been written: the first text at 1, the table
\* and the last text at offsets read in between
FreshEndOffsetWitness ==
    /\ Len(calls) = 8
    /\ calls[3].call = "write_content" /\ calls[3].ok /\ calls[3].anchor = 1
    /\ calls[5].call = "insert_table" /\ calls[5].ok /\ calls[5].anchor > 1
    /\ calls[8].call = "write_content" /\ calls[8].ok
    /\ calls[8].anchor > calls[5].anchor

\* C8: a failed collaborator call ends the invocation with an error: no
\* call follows it (no further mutation, no retry, no compensation), the
\* document stays as the calls before it left it, and the invocation never
\* returns the success result.
FailStopStep ==
    /\ (Failed(calls) /\ calls' # calls) => calls' = <<>>
    /\ (Failed(calls') /\ calls' # calls) =>
          /\ remote_doc' = remote_doc
          /\ w_pc' = "raised"
          /\ w_result'.type \in {"ValueError", "Exception"}
    /\ w_result'.type = "success" => \A i \in DOMAIN calls' : calls'[i].ok

FailStop == [][FailStopStep]_vars

\* the text after the table failed after the text before it and the table
\* had been written: they are still in the document
FailStopWitness ==
    /\ w_pc = "raised"
    /\ Len(calls) = 8
    /\ Failed(calls)
    /\ w_result.type \in {"ValueError", "Exception"}
    /\ \E k \in DOMAIN remote_doc : remote_doc[k].kind = "T"
    /\ calls[3].batch # <<>>

\* C9: a failure with status 404 is raised as the ValueError "El documento
\* no existe", one with status 403 as the ValueError about permissions;
\* every other failure, an exception that is no HttpError included, is
\* raised as a generic Exception that quotes the original message.
ErrorClassification ==
    Failed(calls) =>
        LET e == Last(calls).err
        IN  IF e.kind = "HttpError" /\ e.status = 404
                THEN w_result.type = "ValueError"
                     /\ w_result.message = "El documento no existe"
            ELSE IF e.kind = "HttpError" /\ e.status = 403
                THEN w_result.type = "ValueError"
                     /\ w_result.message = NoPermission.message
                     /\ w_result.message # "El documento no existe"
            ELSE w_result.type = "Exception" /\ w_result.detail = e.message

\* the API answered 403 when the table was to be inserted
ErrorClassificationWitness ==
    /\ Failed(calls)
    /\ Last(calls).call = "insert_table"
    /\ Last(calls).err.status = 403
    /\ w_result = NoPermission

\* C10: the invocations that rendered the markdown left the same plain
\* text, whatever the document held before each of them.
IdempotentRerender ==
    \A i, j \in DOMAIN rendered : PlainText(rendered[i]) = PlainText(rendered[j])

\* a text with a table has been rendered twice
IdempotentRerenderWitness ==
    /\ Len(rendered) = 2
    /\ w_pc = "done"
    /\ has_table
    /\ ~IsBlank(before_md)
    /\ Len(PlainText(rendered[2])) > 4

\* non-blank text, a table, non-blank text
IsMixed(md) ==
    LET sp == SplitMarkdownAndFirstTable(md)
    IN  sp.has_table /\ ~IsBlank(sp.before) /\ ~IsBlank(sp.after)

\* the mutating calls of the invocation after the clear, with the batch each
\* one submitted (<<>>: the call submitted none)
MutatingCalls == SelectSeq(calls, IsMutation)

CallNames(cs) == [k \in DOMAIN cs |-> cs[k].call]

NumInsertTables(cs) ==
    Cardinality({<<k, n>> \in (DOMAIN cs) \X (1..1) :
                    cs[k].batch # <<>> /\ cs[k].batch[n].op = "insertTable"})

\* leading-text batch, insertTable, table-fill batch, trailing-text batch,
\* every one of them submitted
FourSubmissions ==
    /\ CallNames(MutatingCalls)
         = <<"write_content", "insert_table", "fill_first_table", "write_content">>
    /\ \A k \in DOMAIN MutatingCalls : MutatingCalls[k].batch # <<>>
    /\ NumInsertTables(MutatingCalls) = 1

\* C11 as stated: a full run on non-blank text, a table, non-blank text
\* issues exactly one insertTable and exactly three batches of operations
\* (leading text, table fill, trailing text), the insertTable second.
MixedCallSequenceAnyTable ==
    (w_result.type = "success" /\ IsMixed(w_md)) => FourSubmissions

\* C11, amended: the same when at least one cell of the table the inserted
\* columns have room for holds text; when every such cell is empty,
\* fill_first_table is still called third but submits no batch, and the run
\* issues the insertTable and the two text batches only.
MixedCallSequence ==
    (w_result.type = "success" /\ IsMixed(w_md)) =>
        IF TableTexts(table_data) # {} THEN FourSubmissions
        ELSE /\ CallNames(MutatingCalls)
                  = <<"write_content", "insert_table", "fill_first_table", "write_content">>
             /\ \A k \in DOMAIN MutatingCalls : (MutatingCalls[k].batch = <<>>) <=> (k = 3)
             /\ NumInsertTables(MutatingCalls) = 1

\* "# H\n\na|b\n---|---\n1|2\n\nfooter" has been written
MixedCallSequenceWitness ==
    /\ w_result.type = "success"
    /\ w_md = JoinNL(<<HeadingLine, <<>>, HeaderLine, SeparatorLine, RowLine, <<>>, FooterLine>>)
    /\ Len(MutatingCalls) = 4
    /\ Len(MutatingCalls[3].batch) = 4

\* ------------------------------------------------------------------------
\* Properties of the choice of the table and of its cells
\* ------------------------------------------------------------------------
TableElements == {k \in DOMAIN snapshot : snapshot[k].has_table}

NearElements ==
    {k \in TableElements : Abs(snapshot[k].startIndex - location_index) <= 1}

Least(S) == CHOOSE k \in S : \A m \in S : k <= m

Greatest(S) == CHOOSE k \in S : \A m \in S : k >= m

\* the element the fill has to take: the first table, or in the mode by
\* index the first table within 1 of location_index and else the last one
SelectedElement ==
    IF pl_mode = "first" THEN Least(TableElements)
    ELSE IF NearElements # {} THEN Least(NearElements)
    ELSE Greatest(TableElements)

SelectedRows == snapshot[SelectedElement].table.tableRows

\* the cell has a first paragraph with a content run that has a start index
HasAnchor(cell) ==
    /\ cell.content # <<>>
    /\ cell.content[1].has_elements
    /\ cell.content[1].elements # <<>>
    /\ cell.content[1].elements[1].startIndex # NoIndex

AnchorOf(cell) == cell.content[1].elements[1].startIndex

\* row i, column j (from 1) of the data holds a text to insert
HasText(i, j) ==
    /\ i <= Len(pl_data)
    /\ j <= Len(pl_data[i])
    /\ pl_data[i][j] # <<>>

RequestsAt(o) == {n \in DOMAIN fill_requests : fill_requests[n].index = o}

\* C21: for every cell anchor (offset, r, c) of the selected table the fill
\* emits exactly one InsertText{offset, data[r][c]} when the data has a
\* non-empty text at (r, c), and nothing for that anchor otherwise; no
\* insert is empty and every insert sits at a cell anchor, whatever the
\* widths of the data rows.
FillClamping ==
    pl_pc = "returned" =>
        /\ \A i \in DOMAIN SelectedRows : \A j \in DOMAIN SelectedRows[i].tableCells :
              HasAnchor(SelectedRows[i].tableCells[j]) =>
                  IF HasText(i, j)
                  THEN /\ Cardinality(RequestsAt(AnchorOf(SelectedRows[i].tableCells[j]))) = 1
                       /\ \A n \in RequestsAt(AnchorOf(SelectedRows[i].tableCells[j])) :
                             fill_requests[n]
                                 = InsertText(AnchorOf(SelectedRows[i].tableCells[j]),
                                              pl_data[i][j])
                  ELSE RequestsAt(AnchorOf(SelectedRows[i].tableCells[j])) = {}
        /\ \A n \in DOMAIN fill_requests :
              /\ IsInsert(fill_requests[n])
              /\ Len(fill_requests[n].text) > 0
              /\ \E i \in DOMAIN SelectedRows : \E j \in DOMAIN SelectedRows[i].tableCells :
                    /\ HasAnchor(SelectedRows[i].tableCells[j])
                    /\ AnchorOf(SelectedRows[i].tableCells[j]) = fill_requests[n].index

\* a table of three cells in one row was filled from data whose first row
\* has two texts and whose second row has none
FillClampingWitness ==
    /\ pl_pc = "returned"
    /\ Len(SelectedRows) = 1
    /\ Len(SelectedRows[1].tableCells) = 3
    /\ Len(pl_data) = 2
    /\ Len(pl_data[1]) = 2
    /\ Len(pl_data[2]) = 0
    /\ Len(fill_requests) = 2

\* some cell of the selected table has no content, or a first paragraph
\* without a content run
HasDefectCell ==
    \E i \in DOMAIN SelectedRows : \E j \in DOMAIN SelectedRows[i].tableCells :
        ~HasAnchor(SelectedRows[i].tableCells[j])

\* C22: in both modes a cell without content, or whose first paragraph has
\* no content run, gives no anchor and no insert, and the fill completes
\* normally for the remaining cells.
DefectCellsSkipped ==
    (pl_pc # "idle" /\ TableElements # {} /\ HasDefectCell) =>
        /\ pl_pc = "returned"
        /\ pl_status = "ok"
        /\ \A i \in DOMAIN SelectedRows : \A j \in DOMAIN SelectedRows[i].tableCells :
              (HasAnchor(SelectedRows[i].tableCells[j]) /\ HasText(i, j)) =>
                  RequestsAt(AnchorOf(SelectedRows[i].tableCells[j])) # {}
        /\ Len(fill_requests)
             = Cardinality({c \in (DOMAIN SelectedRows) \X (1..MaxCells) :
                               /\ c[2] \in DOMAIN SelectedRows[c[1]].tableCells
                               /\ HasAnchor(SelectedRows[c[1]].tableCells[c[2]])
                               /\ HasText(c[1], c[2])})

\* fill_table_at_index met a cell whose first paragraph has an empty list
\* of elements, next to cells that could be filled: it raised
DefectCellRaisesWitness ==
    /\ pl_pc = "raised"
    /\ pl_mode = "at_index"
    /\ pl_status = "IndexError"
    /\ fill_requests = <<>>
    /\ pl_doc = PlanDoc
    /\ \E i \in DOMAIN SelectedRows : \E j, k \in DOMAIN SelectedRows[i].tableCells :
          /\ SelectedRows[i].tableCells[j] = DefectCell("noelements")
          /\ HasAnchor(SelectedRows[i].tableCells[k])
          /\ HasText(i, k)

\* the anchors of the cells of table element k
AnchorsOfElement(k) ==
    {AnchorOf(snapshot[k].table.tableRows[c[1]].tableCells[c[2]]) :
        c \in {c \in (DOMAIN snapshot[k].table.tableRows) \X (1..MaxCells) :
                 /\ c[2] \in DOMAIN snapshot[k].table.tableRows[c[1]].tableCells
                 /\ HasAnchor(snapshot[k].table.tableRows[c[1]].tableCells[c[2]])}}

\* the cells of table element k that have an anchor and a text in the data
FillableCells(k) ==
    {c \in (DOMAIN snapshot[k].table.tableRows) \X (1..MaxCells) :
        /\ c[2] \in DOMAIN snapshot[k].table.tableRows[c[1]].tableCells
        /\ HasAnchor(snapshot[k].table.tableRows[c[1]].tableCells[c[2]])
        /\ HasText(c[1], c[2])}

\* the fill has filled table element k and no other
Filled(k) ==
    pl_pc = "returned" =>
        /\ \A n \in DOMAIN fill_requests : fill_requests[n].index \in AnchorsOfElement(k)
        /\ Len(fill_requests) = Cardinality(FillableCells(k))

\* C23: by index the fill takes a table element that starts within 1 of
\* location_index, and the last table element only when none does; the
\* fill of the first table always takes the first table element; without
\* any table the fill raises and emits no insert.
TableSelection ==
    pl_pc # "idle" =>
        IF TableElements = {}
        THEN /\ pl_pc = "raised"
             /\ pl_status = "ValueError"
             /\ fill_requests = <<>>
             /\ pl_doc = PlanDoc
        ELSE /\ pl_status # "ValueError"
             /\ pl_mode = "first" => Filled(Least(TableElements))
             /\ (pl_mode = "at_index" /\ NearElements # {}) =>
                    \E k \in NearElements : Filled(k)
             /\ (pl_mode = "at_index" /\ NearElements = {}) =>
                    Filled(Greatest(TableElements))

\* by index, the first of two tables was filled because it starts within 1
\* of location_index; the last table was left alone
TableSelectionWitness ==
    /\ pl_pc = "returned"
    /\ pl_mode = "at_index"
    /\ Cardinality(TableElements) = 2
    /\ NearElements = {Least(TableElements)}
    /\ Len(fill_requests) = 3
    /\ \A n \in DOMAIN fill_requests :
          fill_requests[n].index \in AnchorsOfElement(Least(TableElements))

\* ------------------------------------------------------------------------
\* Properties of one line of convert
\* ------------------------------------------------------------------------
\* the loop of convert has visited a line: this_line, line_start and
\* line_requests describe it
LineVisited == cv_pc # "idle" /\ Len(lines) < Len(SplitNL(markdown_content))

\* k when the line starts with k '#' and a space, k in 1..4, else 0
HeadingLevel(l) ==
    IF StartsWith(l, <<"#", " ">>) THEN 1
    ELSE IF StartsWith(l, <<"#", "#", " ">>) THEN 2
    ELSE IF StartsWith(l, <<"#", "#", "#", " ">>) THEN 3
    ELSE IF StartsWith(l, <<"#", "#", "#", "#", " ">>) THEN 4
    ELSE 0

HeadingText(l) == DropFirst(l, HeadingLevel(l) + 1)

HeadingStyle(k) ==
    IF k = 1 THEN "HEADING_1" ELSE IF k = 2 THEN "HEADING_2"
    ELSE IF k = 3 THEN "HEADING_3" ELSE "HEADING_4"

\* the insert of T and its newline at s, then the heading style over T
HeadingPair(s, T, k) ==
    <<InsertText(s, T \o <<NL>>),
      RangeOp("updateParagraphStyle", s, s + Len(T), HeadingStyle(k))>>

\* a heading line of level k with a non-empty text T, visited at cursor s,
\* yields InsertText{s, T + newline} and then the style over [s, s+len(T))
HeadingLineRoundTrip ==
    (LineVisited /\ HeadingLevel(this_line) > 0 /\ HeadingText(this_line) # <<>>) =>
        line_requests
            = HeadingPair(line_start, HeadingText(this_line), HeadingLevel(this_line))

TitleWithNewline == TitleLine \o <<NL>>

TitleText == <<"T", "i", "t", "l", "e">>

\* C12 as stated: the heading pair for every heading line, and
\* convert("# Title\n", 1) returns exactly one InsertText,
\* InsertText{1, "Title\n"}, and one SetParagraphStyle{1, 6, HEADING_1}.
HeadingRoundTripOneInsert ==
    /\ HeadingLineRoundTrip
    /\ (cv_pc = "returned" /\ markdown_content = TitleWithNewline /\ start_index = 1) =>
           /\ requests = HeadingPair(1, TitleText, 1)
           /\ NumInserts(requests) = 1

\* C12: a heading line of level k (1..4) with non-empty text T, visited at
\* cursor s, yields InsertText{s, T + newline} immediately followed by the
\* paragraph style HEADING_k over [s, s+len(T)); convert("# Title", 1)
\* returns exactly InsertText{1, "Title\n"} and the style {1, 6, HEADING_1},
\* and convert("# Title\n", 1) returns these two followed by
\* InsertText{7, "\n"} for the empty line after the last newline.
HeadingRoundTrip ==
    /\ HeadingLineRoundTrip
    /\ (cv_pc = "returned" /\ markdown_content = TitleLine /\ start_index = 1) =>
           requests = HeadingPair(1, TitleText, 1)
    /\ (cv_pc = "returned" /\ markdown_content = TitleWithNewline /\ start_index = 1) =>
           requests = HeadingPair(1, TitleText, 1) \o <<InsertText(7, <<NL>>)>>

\* convert("# Title\n", 1) has returned, the heading being the first line
HeadingRoundTripWitness ==
    /\ cv_pc = "returned"
    /\ markdown_content = TitleWithNewline
    /\ start_index = 1
    /\ SubSeq(requests, 1, 2) = HeadingPair(1, TitleText, 1)
    /\ NumInserts(requests) = 2
    /\ this_line = <<>>
    /\ line_start = 7

\* the text convert hands to _parse_inline_formatting for a line: the
\* remainder of a list item, the whole line of a paragraph, None for a blank
\* line or a heading (neither is inline-formatted)
InlineBody(l) ==
    IF IsBlank(l) \/ HeadingLevel(l) > 0 THEN None
    ELSE IF StartsWith(l, <<"-", " ">>) \/ StartsWith(l, <<"*", " ">>) THEN DropFirst(l, 2)
    ELSE IF IsNumbered(l) THEN DropFirst(l, LeadingDigits(l) + 2)
    ELSE l

NoMarker(t) == \A k \in DOMAIN t : t[k] \notin {"*", Tick}

Stars3 == <<"*", "*", "*">>

\* t is L ***P*** R with L free of markers and P non-empty and free of
\* markers, the opening asterisks standing at i and the closing ones at j
TripleSegment(t, i, j) ==
    /\ i >= 1 /\ j > i + 3 /\ j + 2 <= Len(t)
    /\ NoMarker(SubSeq(t, 1, i - 1))
    /\ SubSeq(t, i, i + 2) = Stars3
    /\ NoMarker(SubSeq(t, i + 3, j - 1))
    /\ SubSeq(t, j, j + 2) = Stars3

\* the operations of a literal text at cursor s
LiteralOps(s, t) == IF t = <<>> THEN <<>> ELSE <<InsertText(s, t)>>

\* the literal L at s, then the payload P as one bold and italic span
TripleSpanOps(s, L, P) ==
    LiteralOps(s, L) \o
    <<InsertText(s + Len(L), P),
      RangeOp("updateTextStyle", s + Len(L), s + Len(L) + Len(P), "bold_italic")>>

NumTextStyles(rs) == Cardinality({k \in DOMAIN rs : rs[k].op = "updateTextStyle"})

\* C13: in a text that is inline-formatted, a segment ***P*** with a
\* non-empty payload P (after a literal L) yields InsertText of P followed by
\* one text style with both bold and italic over P; when the rest of the
\* text is literal too, this is the only styled span of the line and no
\* inserted text keeps an asterisk.
InlinePrecedence ==
    (LineVisited /\ InlineBody(this_line) # None) =>
        \A i, j \in 1..Len(InlineBody(this_line)) :
            TripleSegment(InlineBody(this_line), i, j) =>
                /\ SubSeq(line_requests, 1, (IF i = 1 THEN 2 ELSE 3))
                      = TripleSpanOps(line_start,
                                      SubSeq(InlineBody(this_line), 1, i - 1),
                                      SubSeq(InlineBody(this_line), i + 3, j - 1))
                /\ NoMarker(DropFirst(InlineBody(this_line), j + 2)) =>
                      /\ NumTextStyles(line_requests) = 1
                      /\ \A k \in DOMAIN line_requests :
                            IsInsert(line_requests[k]) => NoMarker(line_requests[k].text)

\* convert("***x***", 7) has returned the span and the paragraph's newline
InlinePrecedenceWitness ==
    /\ cv_pc = "returned"
    /\ start_index = 7
    /\ markdown_content = Stars3 \o <<"x">> \o Stars3
    /\ this_line = markdown_content
    /\ requests = <<InsertText(7, <<"x">>),
                    RangeOp("updateTextStyle", 7, 8, "bold_italic"),
                    InsertText(8, <<NL>>)>>

\* C14 as stated: a blank line that is not the empty string yields a single
\* InsertText of "\n", and a line that is the empty string yields no
\* operation at all.
BlankLineOnlyIfNonEmpty ==
    (LineVisited /\ IsBlank(this_line)) =>
        line_requests
            = (IF this_line = <<>> THEN <<>> ELSE <<InsertText(line_start, <<NL>>)>>)

\* C14: every blank line (empty after trim), the empty string included,
\* yields a single InsertText of "\n" at the cursor and nothing else.
BlankLine ==
    (LineVisited /\ IsBlank(this_line)) =>
        /\ line_requests = <<InsertText(line_start, <<NL>>)>>
        /\ current_index = line_start + 1

\* an empty line between two lines has been visited
BlankLineWitness ==
    /\ LineVisited
    /\ this_line = <<>>
    /\ line_start > start_index
    /\ line_requests = <<InsertText(line_start, <<NL>>)>>
    /\ Len(SplitNL(markdown_content)) = 3
    /\ Len(lines) = 1

\* the marked segments with an empty payload: italic, bold, bold and
\* italic, code
EmptyMarkers ==
    { <<"*", "*">>, <<"*", "*", "*", "*">>, <<"*", "*", "*", "*", "*", "*">>,
      <<Tick, Tick>> }

EmptyBold == <<"*", "*", "*", "*">>

\* in an inline-formatted text L M R, with M an empty marker after i
\* characters and L and R literal, M adds nothing: the line yields the
\* inserts of L and R, the newline, and no text style
EmptyMarkerNoSpan ==
    (LineVisited /\ InlineBody(this_line) # None) =>
        \A i \in 0..Len(InlineBody(this_line)) : \A m \in EmptyMarkers :
            ( /\ i + Len(m) <= Len(InlineBody(this_line))
              /\ NoMarker(SubSeq(InlineBody(this_line), 1, i))
              /\ SubSeq(InlineBody(this_line), i + 1, i + Len(m)) = m
              /\ NoMarker(DropFirst(InlineBody(this_line), i + Len(m))) ) =>
                /\ NumTextStyles(line_requests) = 0
                /\ SubSeq(line_requests, 1, NumInserts(line_requests))
                      = LiteralOps(line_start, SubSeq(InlineBody(this_line), 1, i)) \o
                        LiteralOps(line_start + i,
                                   DropFirst(InlineBody(this_line), i + Len(m))) \o
                        <<InsertText(line_start + Len(InlineBody(this_line)) - Len(m),
                                     <<NL>>)>>

\* C15 as stated: an empty marker produces no span, and a line that is only
\* an empty bold marker yields zero InsertText operations.
EmptyMarkerNoInsert ==
    /\ EmptyMarkerNoSpan
    /\ (LineVisited /\ this_line = EmptyBold) => NumInserts(line_requests) = 0

\* C15: a marked inline segment whose payload is empty produces no span
\* (no InsertText and no text style of its own); a line that is only an
\* empty bold marker yields exactly one operation, the InsertText of the
\* newline that ends the paragraph.
EmptyMarkerSuppression ==
    /\ EmptyMarkerNoSpan
    /\ (LineVisited /\ this_line = EmptyBold) =>
           line_requests = <<InsertText(line_start, <<NL>>)>>

\* a literal followed by an empty bold marker has been converted at 7
EmptyMarkerSuppressionWitness ==
    /\ cv_pc = "returned"
    /\ start_index = 7
    /\ this_line = <<"a">> \o EmptyBold
    /\ markdown_content = this_line
    /\ requests = <<InsertText(7, <<"a">>), InsertText(8, <<NL>>)>>

IsTextStyle(r) == r.op = "updateTextStyle"

\* C17: in the list of convert every text style comes right after the
\* InsertText of its own segment, over exactly [i, i+len(text)) of that
\* InsertText{i, text}; a text without markers yields inserts only; and no
\* operation with a range reaches past what the operations before it have
\* inserted.
InsertStylePairing ==
    /\ \A k \in DOMAIN requests :
          IsTextStyle(requests[k]) =>
              /\ k > 1
              /\ IsInsert(requests[k - 1])
              /\ requests[k].startIndex = requests[k - 1].index
              /\ requests[k].endIndex
                    = requests[k - 1].index + Len(requests[k - 1].text)
    /\ \A k \in DOMAIN requests :
          ~IsInsert(requests[k]) =>
              /\ requests[k].startIndex >= start_index
              /\ requests[k].endIndex
                    <= start_index + InsertedLength(SubSeq(requests, 1, k - 1))
    /\ (LineVisited /\ InlineBody(this_line) # None /\ NoMarker(InlineBody(this_line))) =>
          /\ NumTextStyles(line_requests) = 0
          /\ SubSeq(line_requests, 1, NumInserts(line_requests))
                = LiteralOps(line_start, InlineBody(this_line)) \o
                  <<InsertText(line_start + Len(InlineBody(this_line)), <<NL>>)>>

\* convert has returned a list with two styled spans, the second one after
\* other inserts
InsertStylePairingWitness ==
    /\ cv_pc = "returned"
    /\ NumTextStyles(requests) = 2
    /\ \E k \in DOMAIN requests :
          /\ IsTextStyle(requests[k])
          /\ requests[k].startIndex > start_index
          /\ requests[k].endIndex = requests[k].startIndex + 1
          /\ requests[k - 1] = InsertText(requests[k].startIndex, <<"b">>)

\* C18: every operation of convert that carries a range (paragraph style,
\* text style, bullets) has startIndex < endIndex, startIndex >= the
\* start_index of the call, and endIndex <= the cursor at the moment it is
\* emitted, also for headings and list items with no text after the prefix.
RangesWellFormed ==
    \A k \in DOMAIN requests :
        ~IsInsert(requests[k]) =>
            /\ requests[k].startIndex < requests[k].endIndex
            /\ requests[k].startIndex >= start_index
            /\ requests[k].endIndex
                  <= start_index + InsertedLength(SubSeq(requests, 1, k - 1))

\* a list item with no text has been visited: its bullets cover [s, s)
EmptyRangeWitness ==
    /\ LineVisited
    /\ this_line = <<"-", " ">>
    /\ line_requests
         = <<InsertText(line_start, <<NL>>),
             RangeOp("createParagraphBullets", line_start, line_start,
                     "BULLET_DISC_CIRCLE_SQUARE")>>

\* C19: a heading line with no text after its prefix inserts nothing and
\* emits no paragraph style.
EmptyHeadingSkipped ==
    (LineVisited /\ HeadingLevel(this_line) > 0 /\ HeadingText(this_line) = <<>>) =>
        line_requests = <<>>

\* the heading "## " has been visited: a newline and a style over [s, s)
EmptyHeadingWitness ==
    /\ LineVisited
    /\ this_line = <<"#", "#", " ">>
    /\ line_requests
         = <<InsertText(line_start, <<NL>>),
             RangeOp("updateParagraphStyle", line_start, line_start, "HEADING_2")>>

IsBulletLine(l) ==
    /\ ~IsBlank(l) /\ HeadingLevel(l) = 0
    /\ (StartsWith(l, <<"-", " ">>) \/ StartsWith(l, <<"*", " ">>))

IsNumberedLine(l) == ~IsBlank(l) /\ HeadingLevel(l) = 0 /\ ~IsBulletLine(l) /\ IsNumbered(l)

ListPreset(l) ==
    IF IsBulletLine(l) THEN "BULLET_DISC_CIRCLE_SQUARE" ELSE "NUMBERED_DECIMAL_ALPHA_ROMAN"

NumBullets(rs) == Cardinality({k \in DOMAIN rs : rs[k].op = "createParagraphBullets"})

\* the operations of a list item visited at line_start, the cursor being at
\* current_index afterwards: the inline-formatted remainder, the newline,
\* and one createParagraphBullets with the preset of the list, from
\* line_start to bullets_end
ListItemOps(bullets_end) ==
    /\ Len(line_requests) >= 2
    /\ NumBullets(line_requests) = 1
    /\ SubSeq(line_requests, 1, Len(line_requests) - 2)
         = ParseInlineFormatting(line_start, InlineBody(this_line)).requests
    /\ line_requests[Len(line_requests) - 1] = InsertText(current_index - 1, <<NL>>)
    /\ line_requests[Len(line_requests)]
         = RangeOp("createParagraphBullets", line_start, bullets_end, ListPreset(this_line))

\* C20 as stated: the bullets of a list item cover its full inserted range,
\* from the cursor before the item to the cursor after its newline.
ListItemFullRange ==
    (LineVisited /\ (IsBulletLine(this_line) \/ IsNumberedLine(this_line))) =>
        ListItemOps(current_index)

\* C20: for a bullet line ("- ", "* ") or a numbered line (digits + ". ")
\* convert inline-formats the remainder, inserts a newline and then emits
\* exactly one createParagraphBullets, the last operation of the line, with
\* BULLET_DISC_CIRCLE_SQUARE or NUMBERED_DECIMAL_ALPHA_ROMAN; its range runs
\* from the cursor before the item to the cursor after the newline minus
\* one: it covers the item's text without the newline, and is empty for an
\* item without text.
ListItemBullets ==
    (LineVisited /\ (IsBulletLine(this_line) \/ IsNumberedLine(this_line))) =>
        ListItemOps(current_index - 1)

\* a bullet item with an italic span has been visited as the second line
ListItemBulletsWitness ==
    /\ LineVisited
    /\ this_line = <<"-", " ", "*", "i", "*">>
    /\ line_start > start_index
    /\ line_requests
         = <<InsertText(line_start, <<"i">>),
             RangeOp("updateTextStyle", line_start, line_start + 1, "italic"),
             InsertText(line_start + 1, <<NL>>),
             RangeOp("createParagraphBullets", line_start, line_start + 1,
                     "BULLET_DISC_CIRCLE_SQUARE")>>

\* number of tables in the lines ls: a line with a pipe followed by a
\* separator line starts one, which runs on while the lines have a pipe
RECURSIVE CountTables(_)
CountTables(ls) ==
    IF TableStart(ls, 0) = Len(ls) THEN 0
    ELSE 1 + CountTables(SubSeq(ls, TableEnd(ls, TableStart(ls, 0) + 2) + 1, Len(ls)))

\* the texts the text batches of the calls so far insert
InsertedTexts ==
    UNION {{calls[k].batch[n].text :
               n \in {n \in DOMAIN calls[k].batch : IsInsert(calls[k].batch[n])}} :
           k \in {k \in DOMAIN calls : calls[k].call = "write_content"}}

\* C24 as stated: every table of the markdown is split out, so a write that
\* succeeds has inserted one table per table of the markdown, and no row
\* of a table has gone to the converter as paragraph text.
EveryTableSplitOut ==
    w_result.type = "success" =>
        /\ NumInsertTables(MutatingCalls) = CountTables(SplitLines(w_md))
        /\ CountTables(SplitLines(w_md)) >= 2 => RowLine \notin InsertedTexts

\* C24: only the first table of the markdown is split out: a write that
\* succeeds has inserted one table when the markdown has any, and none
\* otherwise; the lines of every further table stay in the text after the
\* first table and go to the converter, which inserts them as paragraphs.
FirstTableSplitOut ==
    w_result.type = "success" =>
        /\ NumInsertTables(MutatingCalls)
             = (IF CountTables(SplitLines(w_md)) >= 1 THEN 1 ELSE 0)
        /\ CountTables(SplitLines(w_md)) >= 2 =>
              /\ CountTables(SplitLines(after_md)) = CountTables(SplitLines(w_md)) - 1
              /\ Last(MutatingCalls).call = "write_content"
              /\ Last(MutatingCalls).batch
                   = CleanedRequests(Convert(after_md, Last(MutatingCalls).anchor).requests)
              /\ {HeaderLine, SeparatorLine, RowLine} \subseteq InsertedTexts

\* the markdown with two tables has been written: one table inserted, the
\* second one in the last text batch
FirstTableSplitOutWitness ==
    /\ w_result.type = "success"
    /\ w_md = TwoTables
    /\ NumInsertTables(MutatingCalls) = 1
    /\ CallNames(MutatingCalls) = <<"insert_table", "fill_first_table", "write_content">>
    /\ RowLine \in InsertedTexts

\* ------------------------------------------------------------------------
\* Properties of the split
\* ------------------------------------------------------------------------
TableOnly(rows) == [before |-> <<>>, has_table |-> TRUE, table |-> rows, after |-> <<>>]

LinesOf(text) == IF text = <<>> THEN <<>> ELSE SplitNL(text)

\* the rows of the table are the cells of the lines start+1 .. end of ls,
\* the separator line start+2 left out
RowsOfLines(ls, start, end) ==
    /\ Len(sp_result.table) = end - start - 1
    /\ sp_result.table[1] = ParseRow(ls[start + 1])
    /\ \A k \in 2..(end - start - 1) : sp_result.table[k] = ParseRow(ls[start + k + 1])

\* the table is the lines start+1 .. end: a line with a pipe, a separator
\* line, then lines with a pipe up to the first blank line or line
\* without a pipe
TableSpan(ls, start, end) ==
    /\ start + 2 <= end /\ end <= Len(ls)
    /\ HasPipe(ls[start + 1])
    /\ IsSeparatorRow(ls[start + 2])
    /\ \A k \in (start + 3)..end : HasPipe(ls[k]) /\ ~IsBlank(ls[k])
    /\ end < Len(ls) => (IsBlank(ls[end + 1]) \/ ~HasPipe(ls[end + 1]))
    /\ RowsOfLines(ls, start, end)

\* the text and the lines it stands for are the same lines
SameLines(text, ls) == LinesOf(text) = ls

\* the same, but a single empty line is given as the empty text
SameLinesButOneEmpty(text, ls) ==
    IF ls = << <<>> >> THEN text = <<>> ELSE LinesOf(text) = ls

\* C25 as stated: the lines of the text before, the rows of the table and
\* the lines of the text after are exactly the lines of the markdown in
\* their order, the separator line alone removed; the table stops at the
\* first blank line or line without a pipe, which starts the text after.
SplitConservationEveryLine ==
    sp_pc = "returned" =>
        IF sp_result.has_table
        THEN \E start, end \in 0..Len(SplitLines(sp_markdown)) :
                /\ TableSpan(SplitLines(sp_markdown), start, end)
                /\ SameLines(sp_result.before, SubSeq(SplitLines(sp_markdown), 1, start))
                /\ SameLines(sp_result.after,
                             SubSeq(SplitLines(sp_markdown), end + 1,
                                    Len(SplitLines(sp_markdown))))
        ELSE sp_result.before = sp_markdown /\ sp_result.after = <<>>

\* C25: the lines of the text before, the rows of the table and the lines
\* of the text after are the lines of the markdown in their order, the
\* separator line removed, and the table stops at the first blank line or
\* line without a pipe, which starts the text after; except that a text
\* before or after the table that is one empty line is returned as the
\* empty text, so that this line is lost.
SplitConservation ==
    sp_pc = "returned" =>
        IF sp_result.has_table
        THEN \E start, end \in 0..Len(SplitLines(sp_markdown)) :
                /\ TableSpan(SplitLines(sp_markdown), start, end)
                /\ SameLinesButOneEmpty(sp_result.before,
                                        SubSeq(SplitLines(sp_markdown), 1, start))
                /\ SameLinesButOneEmpty(sp_result.after,
                                        SubSeq(SplitLines(sp_markdown), end + 1,
                                               Len(SplitLines(sp_markdown))))
        ELSE sp_result.before = sp_markdown /\ sp_result.after = <<>>

\* the mixed document "# H", "", table, "", "footer" has been split: two
\* lines before the table and two after it
SplitConservationWitness ==
    /\ sp_pc = "returned"
    /\ sp_markdown = JoinNL(<<HeadingLine, <<>>, HeaderLine, SeparatorLine, RowLine,
                              <<>>, FooterLine>>)
    /\ sp_result.has_table
    /\ LinesOf(sp_result.before) = <<HeadingLine, <<>>>>
    /\ LinesOf(sp_result.after) = <<<<>>, FooterLine>>
    /\ Len(sp_result.table) = 2
\* ------------------------------------------------------------------------
\* Properties of the blocks that have nothing to write
\* ------------------------------------------------------------------------
\* no cell of the rows has a text
NoData(rows) == \A i \in 1..Len(rows) : \A j \in 1..Len(rows[i]) : rows[i][j] = <<>>

\* C26: in a write of a text with a table, a blank text before or after
\* the table is given to no write_content call; a table whose cells are
\* all empty is filled with no batch and the fill raises nothing of its
\* own (only a failure of the API can end it), after which the service goes
\* on with the text after the table; a write that reaches its end returns
\* the success result, the text after the table written last
NoContentNonFatal ==
    has_table =>
        /\ \A k \in 1..Len(calls) :
              /\ (calls[k].call = "write_content" /\ calls[k].anchor = 1)
                    => ~IsBlank(before_md)
              /\ (calls[k].call = "write_content" /\ calls[k].anchor # 1)
                    => ~IsBlank(after_md)
              /\ (calls[k].call = "fill_first_table" /\ NoData(table_data)) =>
                    /\ calls[k].batch = <<>>
                    /\ calls[k].err \in Failures \cup {NoFailure}
                    /\ calls[k].ok => (k < Len(calls) \/ w_pc = AfterFill(after_md))
        /\ w_pc = "done" =>
              /\ w_result = SuccessResult
              /\ ~IsBlank(after_md) =>
                    Last(calls).call = "write_content" /\ Last(calls).ok

\* C26 witness: a write has ended with success whose text before the table
\* is blank and whose table has no text in any cell: no text was written
\* before the table, the fill submitted no batch, and the text after the
\* table was written
NoContentNonFatalWitness ==
    /\ w_pc = "done"
    /\ has_table
    /\ IsBlank(before_md)
    /\ NoData(table_data)
    /\ ~IsBlank(after_md)
    /\ w_result = SuccessResult
    /\ \E k \in 1..Len(calls) :
          calls[k].call = "fill_first_table" /\ calls[k].ok /\ calls[k].batch = <<>>
    /\ Last(calls).call = "write_content"
    /\ Last(calls).batch # <<>>
    /\ \A k \in 1..Len(calls) : calls[k].call = "write_content" => k = Len(calls)
\* ------------------------------------------------------------------------
\* Properties of clear_document
\* ------------------------------------------------------------------------
\* C27: clear_document submits nothing for a document without content
\* elements or with its final newline only, and otherwise the one deletion
\* of the range from 1 to the position of the final newline; after a clear
\* that returned, the document is its final newline alone
ClearRemovesAll ==
    /\ ClearDocumentRequests(<<>>) = <<>>
    /\ \A k \in 1..Len(calls) :
          calls[k].call = "clear_document" =>
              /\ calls[k].batch =
                    IF calls[k].end_before <= 1 THEN <<>>
                    ELSE <<DeleteContentRange(1, calls[k].end_before)>>
              /\ (calls[k].ok /\ k = Len(calls)) => remote_doc = EmptyDoc

\* C27 witness: clear_document has just returned from a document that had
\* a table in it, and the document is empty
ClearRemovesAllWitness ==
    /\ calls # <<>>
    /\ Last(calls).call = "clear_document"
    /\ Last(calls).ok
    /\ Last(calls).end_before > 3
    /\ Last(calls).batch = <<DeleteContentRange(1, Last(calls).end_before)>>
    /\ remote_doc = EmptyDoc
\* ------------------------------------------------------------------------
\* Properties of calls of convert one after another on one instance
\* ------------------------------------------------------------------------
\* C28: whatever calls the instance has returned from, a call starts with
\* the cursor at its start_index and with no request, and returns the
\* requests and leaves the cursor that convert gives for its two arguments
\* on a new instance
NoCrossCallState ==
    /\ (cv_pc = "running" /\ lines = SplitNL(markdown_content)) =>
          current_index = start_index /\ requests = <<>>
    /\ cv_pc = "returned" =>
          /\ requests = Convert(markdown_content, start_index).requests
          /\ current_index = Convert(markdown_content, start_index).current_index

\* C28 witness: a call has returned on an instance whose call before it
\* had another start index, with requests of its own
NoCrossCallStateWitness ==
    /\ cv_pc = "returned"
    /\ prior_start \notin {NoCall, start_index}
    /\ start_index = 1
    /\ Len(requests) > 1
    /\ requests = Convert(markdown_content, 1).requests
\* ------------------------------------------------------------------------
\* Properties of two writes at the same time
\* ------------------------------------------------------------------------
\* the calls of a write of md that runs alone on doc, no call failing but
\* by what the write itself asks for
RECURSIVE AloneCalls(_, _, _, _)
AloneCalls(pc, md, fr, doc) ==
    IF pc \in {"done", "raised"} THEN <<>>
    ELSE LET o == ServiceCall(pc, md, fr, doc)
         IN  IF Accepted(o, doc)
             THEN <<CallOf(o, TRUE)>>
                      \o AloneCalls(o.next, md, o.frame, BatchUpdate(doc, o.batch))
             ELSE <<CallOf(o, FALSE)>>

\* for each request and each markdown, the calls of the run alone
AloneRuns ==
    [i \in Invocations |->
        [md \in TwoMarkdowns |-> AloneCalls("get_document", md, NoFrame, FirstDocOf(i))]]

AloneCallsOf(i) == IF t_pc[i] = "idle" THEN <<>> ELSE AloneRuns[i][t_md[i]]

\* C29: however the collaborator calls of two writes for two documents are
\* interleaved, each write makes the calls it makes when it runs alone, in
\* the same order, with the same method, offset and batch of operations,
\* and gets the same offsets back; a call that fails is its last, and a
\* write that reaches its end has made all the calls of the run alone
IndependentWrites ==
    \A i \in Invocations :
        /\ Len(t_calls[i]) <= Len(AloneCallsOf(i))
        /\ \A k \in 1..Len(t_calls[i]) :
              /\ t_calls[i][k].call = AloneCallsOf(i)[k].call
              /\ t_calls[i][k].anchor = AloneCallsOf(i)[k].anchor
              /\ t_calls[i][k].batch = AloneCallsOf(i)[k].batch
              /\ t_calls[i][k].ok => t_calls[i][k] = AloneCallsOf(i)[k]
              /\ ~t_calls[i][k].ok => (k = Len(t_calls[i]) /\ t_pc[i] = "raised")
        /\ t_pc[i] = "done" => t_calls[i] = AloneCallsOf(i)

\* C29 witness: two writes of texts with a table have ended, the call has
\* passed from one to the other and back, their tables went to different
\* offsets, and each has made the calls of its run alone
IndependentWritesWitness ==
    /\ \A i \in Invocations :
          /\ t_pc[i] = "done"
          /\ t_frames[i].has_table
          /\ t_calls[i] = AloneCallsOf(i)
    /\ t_switches >= 2
    /\ t_md[1] # t_md[2]
    /\ t_frames[1].end_index # t_frames[2].end_index
\* ------------------------------------------------------------------------
\* Properties of the lines of convert
\* ------------------------------------------------------------------------
\* the texts of the inserts of reqs, one after another
RECURSIVE TextOf(_)
TextOf(reqs) ==
    IF reqs = <<>> THEN <<>>
    ELSE (IF Head(reqs).op = "insertText" THEN Head(reqs).text ELSE <<>>)
             \o TextOf(Tail(reqs))

CountNL(text) == Cardinality({i \in 1..Len(text) : text[i] = NL})

\* C30: the text a line inserts has one newline, its last character, and
\* the texts convert returns for a markdown of n lines have n newlines
LineStructure ==
    /\ LineVisited =>
          /\ CountNL(TextOf(line_requests)) = 1
          /\ Last(TextOf(line_requests)) = NL
    /\ cv_pc = "returned" =>
          CountNL(TextOf(requests)) = Len(SplitNL(markdown_content))

\* C30 witness: convert has returned from a markdown of two lines, a list
\* item and a blank line, with two newlines in its texts
LineStructureWitness ==
    /\ cv_pc = "returned"
    /\ Len(SplitNL(markdown_content)) = 2
    /\ IsBulletLine(SplitNL(markdown_content)[1])
    /\ IsBlank(SplitNL(markdown_content)[2])
    /\ CountNL(TextOf(requests)) = 2
    /\ Last(TextOf(requests)) = NL
\* ------------------------------------------------------------------------
\* Properties of the filter of write_content
\* ------------------------------------------------------------------------
\* an insertText with a text to insert, or a request of another kind
HasContent(req) ==
    req.op = "insertText" => req.text \notin {Missing, None, <<>>}

\* the requests of the argument the loop has visited
Visited == SubSeq(wc_requests, 1, Len(wc_requests) - Len(wc_rest))

\* C31: at every point of the loop the cleaned list is the visited part of
\* the argument without the inserts whose text is missing, None or empty,
\* the other requests unchanged and in their order, and the counter is the
\* number of the requests taken out; when the call ends, the cleaned list
\* of the whole argument is the one body given to batchUpdate, and no
\* body is given and a message is returned when that list is empty
SubmissionFilter ==
    wc_pc # "idle" =>
        /\ cleaned_requests = SelectSeq(Visited, HasContent)
        /\ skipped_count = Len(Visited) - Len(cleaned_requests)
        /\ wc_pc = "cleaning" => wc_batches = <<>>
        /\ wc_pc \in {"returned", "raised"} =>
              /\ wc_rest = <<>>
              /\ IF SelectSeq(wc_requests, HasContent) = <<>>
                 THEN wc_batches = <<>> /\ wc_pc = "returned" /\ wc_result = "message"
                 ELSE wc_batches = <<SelectSeq(wc_requests, HasContent)>>

\* C31 witness: write_content has returned from a list of a request of
\* another kind, an insert of None and an insert of a text: the batch is
\* the first and the last of them
SubmissionFilterWitness ==
    /\ wc_pc = "returned"
    /\ wc_requests = <<RangeOp("updateTextStyle", 1, 2, "bold"), InsertText(4, None),
                       InsertText(1, <<"a">>)>>
    /\ wc_batches = << <<RangeOp("updateTextStyle", 1, 2, "bold"), InsertText(1, <<"a">>)>> >>
    /\ skipped_count = 1
    /\ wc_result = "result"
====
